---- MODULE Spec2Model ----
(***************************************************************************)
(* Model of the HeyGen backend's generation pipeline: the key pool         *)
(* (getNextHeyGenKey), the credit preflight and commit (checkVideoLimits,  *)
(* updateUsage), POST /api/generate-video with its poll loop, download,    *)
(* crop, upload, record write and cleanup, POST /api/generate-video-with-ai*)
(* and POST /api/pricing/add-credits.                                      *)
(*                                                                         *)
(* One action is one continuation of a handler: the code between two       *)
(* awaits, together with the answer of the awaited external call.  Node    *)
(* runs a continuation to its end before it starts another, so these are   *)
(* the interleaving points of concurrent requests.                         *)
(***************************************************************************)
EXTENDS Integers, Sequences, FiniteSets, TLC

(* ------------------------------------------------------------------ *)
(* Program constants                                                  *)
(* ------------------------------------------------------------------ *)

\* limits.js: const CREDITS_PER_VIDEO = 20
CREDITS_PER_VIDEO == 20

\* getNextHeyGenKey: the literal 10 in `(keyUsageCount[key] || 0) < 10`
KEY_QUOTA == 10

\* generate-video: const maxAttempts = 60
maxAttempts == 60

\* add-credits: `credits < 20` is rejected
MIN_PURCHASE == 20

(* ------------------------------------------------------------------ *)
(* Bounds of the model                                                *)
(* ------------------------------------------------------------------ *)

\* Calls of POST /api/pricing/add-credits that are let through.
MaxPurchases == 1

\* In the specification of two concurrent requests the provider reports
\* `completed` on one of the first MaxEarlyPoll status queries, on the
\* last one (the ceiling), or never.
MaxEarlyPoll == 2

\* Calls of getNextHeyGenKey in the specification of the key pool alone.
MaxAcquires == 34

(* ------------------------------------------------------------------ *)
(* Values                                                             *)
(* ------------------------------------------------------------------ *)

Reqs == {"r1", "r2"}
Users == {"u1", "u2"}
InitialCredits == {0, 10, 20, 25, 40}

\* JavaScript's undefined and the empty string as keys, null and undefined
\* as URLs (a URL is a tuple here), as the code tests them with `!x`.
Undefined == "undefined"
\* Mutant: only the empty string is refused, `apiKey === ''` for `!apiKey`.
FalsyKeyEmptyOnly(key) == key = ""

FalsyKey(key) == key \in {Undefined, ""}
Null == <<"null">>
NoUrl == <<"undefined">>
FalsyUrl(url) == url \in {Null, NoUrl}

\* The configurations of process.env.HEYGEN_KEYS the main specifications
\* start from: unset, the empty string, two keys.
KeyConfigs == {<< >>, <<"">>, <<"k1", "k2">>}

Endpoints == {"generate-video", "generate-video-with-ai"}

\* The answers one status query can get: a provider status, `completed`
\* with or without a video_url, or a failed request (network, non-2xx).
PollAnswers == {"processing", "completed", "completed-nourl", "failed", "error"}

VARIABLES
  HEYGEN_KEYS,      \* the configured keys, in order
  keyUsageCount,    \* key -> usage, a missing key counting 0
  users,            \* users collection: uid -> credit fields
  videos,           \* videos collection
  aiVideos,         \* ai-videos collection
  assets,           \* assets collection
  jobs,             \* the jobs the provider has accepted
  files,            \* scratch files that exist
  run,              \* per request: the handler's locals and its position
  opening,          \* history: the accounts at the start
  added,            \* history: credits bought per account
  purchases,        \* history: add-credits calls let through
  acquired,         \* history: the last call of getNextHeyGenKey
  orders,           \* orders collection: order id -> document
  transactions,     \* transactions collection
  pay,              \* per call of /payment/verify: its locals and position
  requests,         \* userRateLimit: the Map of user -> request times
  now,              \* Date.now()
  passed,           \* history: per user, the times userRateLimit let through
  limited           \* history: the last call of the userRateLimit middleware

vars == <<HEYGEN_KEYS, keyUsageCount, users, videos, aiVideos, assets, jobs,
          files,
          run, opening, added, purchases, acquired, orders, transactions,
          pay, requests, now, passed, limited>>

(* ------------------------------------------------------------------ *)
(* Key pool                                                           *)
(* ------------------------------------------------------------------ *)

\* (keyUsageCount[key] || 0)
Usage(usage, key) == IF key \in DOMAIN usage THEN usage[key] ELSE 0

\* Mutant: the write of the counter is lost.
SetUsageLost(usage, key, v) == usage

\* keyUsageCount[key] = v
SetUsage(usage, key, v) ==
  [k \in (DOMAIN usage) \cup {key} |-> IF k = key THEN v ELSE usage[k]]

\* HEYGEN_KEYS[0], undefined for an empty array
FirstKey(keys) == IF Len(keys) > 0 THEN keys[1] ELSE Undefined

\* Mutant: the quota test off by one, `<=` for `<`.
BelowQuotaInclusive(keys, usage) ==
  {i \in 1..Len(keys) : Usage(usage, keys[i]) <= KEY_QUOTA}

\* The indices the for loop would stop at.
BelowQuota(keys, usage) ==
  {i \in 1..Len(keys) : Usage(usage, keys[i]) < KEY_QUOTA}

\* Mutant: the scan runs from the last key down.
MaxOf(S) == CHOOSE i \in S : \A j \in S : i >= j

MinOf(S) == CHOOSE i \in S : \A j \in S : i <= j

\* Mutant: the reset sets the first key's counter and keeps the others.
getNextHeyGenKeyKeeping(keys, usage) ==
  IF BelowQuota(keys, usage) # {}
  THEN LET key == keys[MinOf(BelowQuota(keys, usage))]
       IN [key |-> key,
           usage |-> SetUsage(usage, key, Usage(usage, key) + 1),
           reset |-> FALSE]
  ELSE [key |-> FirstKey(keys),
        usage |-> SetUsage(usage, FirstKey(keys), 1),
        reset |-> TRUE]

\* getNextHeyGenKey(): the key returned, the map afterwards, and whether
\* the counters were reset.
getNextHeyGenKey(keys, usage) ==
  IF BelowQuota(keys, usage) # {}
  THEN LET key == keys[MinOf(BelowQuota(keys, usage))]
       IN [key |-> key,
           usage |-> SetUsage(usage, key, Usage(usage, key) + 1),
           reset |-> FALSE]
  ELSE [key |-> FirstKey(keys),
        usage |-> (FirstKey(keys) :> 1),
        reset |-> TRUE]

\* History of a call: its number, the key it returned, that key's usage
\* before the call, whether the call reset the counters, and the calls made
\* since the counters were last empty (the resetting call included), and
\* the counters as the call found them.
NoCall ==
  [calls |-> 0, key |-> Undefined, before |-> 0, reset |-> FALSE,
   sinceReset |-> 0, usageBefore |-> << >>]

Called(prev, got, usageBefore) ==
  [calls |-> prev.calls + 1, key |-> got.key, before |-> Usage(usageBefore, got.key),
   reset |-> got.reset,
   sinceReset |-> IF got.reset THEN 1 ELSE prev.sinceReset + 1,
   usageBefore |-> usageBefore]

(* ------------------------------------------------------------------ *)
(* Accounts                                                           *)
(* ------------------------------------------------------------------ *)

\* A users document is the record of its credit fields (the other fields
\* are left out).
Account(c) == [credits |-> c, creditsUsed |-> 0, videosGenerated |-> 0]

\* No document under the uid (userDoc.exists is false, data() undefined).
NoDoc == [exists |-> FALSE]

\* The document verifyToken and POST /register set for a uid that has none:
\* videosGenerated: 0, creditsUsed: 0, and no credits field.
NewUserDoc == [creditsUsed |-> 0, videosGenerated |-> 0]

\* `if (!userDoc.exists) set({...})`, else only lastLogin is updated.
EnsureUser(us, uid) ==
  IF us[uid] = NoDoc THEN [us EXCEPT ![uid] = NewUserDoc] ELSE us

\* userData?.credits || 0
Credits(userData) ==
  IF "credits" \in DOMAIN userData THEN userData.credits ELSE 0

\* FieldValue.increment(n) on a field: added to a number the document has,
\* set to n when the document has no such field.
Increment(doc, field, n) ==
  [f \in (DOMAIN doc) \cup {field} |->
     IF f = field THEN (IF field \in DOMAIN doc THEN doc[field] + n ELSE n)
     ELSE doc[f]]

\* userRef.update({credits: increment(-20), creditsUsed: increment(20),
\* videosGenerated: increment(1)}): one atomic write of the store.
VideoUsageUpdate(acct) ==
  Increment(Increment(Increment(acct, "credits", 0 - CREDITS_PER_VIDEO),
                      "creditsUsed", CREDITS_PER_VIDEO),
            "videosGenerated", 1)

\* updateUsage(userId, 'video'): the update when the store applies it; the
\* catch of updateUsage swallows a rejected update (the store failing, or
\* no document to update), leaving the account.
updateUsage(us, uid, storeOk) ==
  IF storeOk /\ us[uid] # NoDoc
  THEN [us EXCEPT ![uid] = VideoUsageUpdate(@)]
  ELSE us

(* ------------------------------------------------------------------ *)
(* Requests                                                           *)
(* ------------------------------------------------------------------ *)

NoResponse == [status |-> 0, error |-> "none"]

\* A { width, height } object; the value of `dimension` before the handler
\* has set it.
Dim(width, height) == <<"dim", width, height>>
NoDimension == <<"unset">>

\* History of the submission of a request's job: how the provider answered
\* it, and the status code and body of a non-2xx answer.
NoSubmit == [outcome |-> "none", status |-> 0, body |-> << >>]

IdleRun ==
  [pc |-> "idle", ep |-> "none", uid |-> "none", apiKey |-> Undefined,
   orientation |-> Undefined, customDimensions |-> NoUrl,
   dimension |-> NoDimension,
   submitted |-> NoSubmit,
   attempts |-> 0, videoUrl |-> Null, status |-> "none",
   available |-> 0, storedVideoId |-> 0,
   response |-> NoResponse,
   queries |-> 0, uploads |-> 0, commits |-> 0, debit |-> 0]

TempPath(r) == <<"temp", r>>
CleanPath(r) == <<"clean", r>>

Respond(r, resp) ==
  run' = [run EXCEPT ![r].pc = "done", ![r].response = resp]

Goto(r, pc) == run' = [run EXCEPT ![r].pc = pc]

\* The request's locals after `await updateUsage(uid, 'video')`, given the
\* accounts before and after it (commits and debit are history: the calls
\* of updateUsage and the credits they took).
Charged(rec, before, after, next) ==
  [rec EXCEPT !.pc = next,
              !.commits = @ + 1,
              !.debit = @ + (Credits(before[rec.uid]) - Credits(after[rec.uid]))]

\* The order ids of the model: two stored orders and an id no order has.
OrderIds == {"o1", "o2", "o3"}

\* No document under the order id.
NoOrder == [exists |-> FALSE]

\* The calls of POST /api/payment/verify.
PayCalls == {"p1", "p2"}

\* A call of /payment/verify before it arrives (credited and wrote are
\* history: the credits its user update added, and whether it wrote the
\* order or a transaction).
IdlePay ==
  [pc |-> "idle", uid |-> "none", order |-> "none", orderData |-> NoOrder,
   response |-> NoResponse, credited |-> 0, wrote |-> FALSE]

\* No order is stored and no call of /payment/verify is made.
NoPayments ==
  /\ orders = [o \in OrderIds |-> NoOrder]
  /\ transactions = {}
  /\ pay = [p \in PayCalls |-> IdlePay]

\* History of a call of the userRateLimit middleware.
NoLimit == [user |-> "none", time |-> 0, status |-> 0]

\* The Map of userRateLimit is empty, the clock at its start.
NoLimiter ==
  /\ requests = << >>
  /\ now = 0
  /\ passed = [u \in Users |-> << >>]
  /\ limited = NoLimit

Init ==
  /\ HEYGEN_KEYS \in KeyConfigs
  /\ keyUsageCount = << >>
  /\ users \in [Users -> {Account(c) : c \in InitialCredits}]
  /\ videos = << >>
  /\ aiVideos = {}
  /\ assets = {}
  /\ NoPayments
  /\ NoLimiter
  /\ jobs = {}
  /\ files = {}
  /\ run = [r \in Reqs |-> IdleRun]
  /\ opening = users
  /\ added = [u \in Users |-> 0]
  /\ purchases = 0
  /\ acquired = NoCall

(* ------------------------------------------------------------------ *)
(* Middleware                                                         *)
(* ------------------------------------------------------------------ *)

\* verifyToken with a valid token of user u: req.user is set, the users
\* document is set when there is none (lastLogin is all it writes
\* otherwise), and the handler chain of endpoint ep goes on.
VerifyToken(r, ep, u) ==
  /\ run[r].pc = "idle"
  /\ run' = [run EXCEPT ![r].pc = "limits", ![r].ep = ep, ![r].uid = u]
  /\ users' = EnsureUser(users, u)
  /\ UNCHANGED <<HEYGEN_KEYS, orders, transactions, pay, requests, now, passed,
                 limited, keyUsageCount, videos, aiVideos, assets, jobs,
                 files, opening, added, purchases, acquired>>

\* verifyToken without a token, or with one verifyIdToken rejects.
VerifyTokenRejected(r, ep) ==
  /\ run[r].pc = "idle"
  /\ run' = [run EXCEPT ![r].pc = "done", ![r].ep = ep,
                        ![r].response = [status |-> 401,
                                         error |-> "Authentication required"]]
  /\ UNCHANGED <<HEYGEN_KEYS, orders, transactions, pay, requests, now, passed,
                 limited, keyUsageCount, users, videos, aiVideos, assets, jobs,
                 files, opening, added, purchases, acquired>>

\* The 403 body of checkVideoLimits.
InsufficientCredits(userCredits) ==
  [status |-> 403, error |-> "Insufficient credits",
   currentCredits |-> userCredits,
   creditsNeeded |-> CREDITS_PER_VIDEO,
   upgradeOptions |-> [buyCredits |-> [price |-> 80, credits |-> 20],
                       basicPlan |-> [price |-> 899, credits |-> 400]]]

\* Mutant: only an empty balance is refused.
BelowCostZero(userCredits) == userCredits <= 0

\* userCredits < CREDITS_PER_VIDEO
BelowCost(userCredits) == userCredits < CREDITS_PER_VIDEO

\* checkVideoLimits, the account read: 403 below the cost, otherwise
\* req.credits is set and next() called.
CheckVideoLimits(r) ==
  /\ run[r].pc = "limits"
  /\ LET userCredits == Credits(users[run[r].uid])
     IN IF BelowCost(userCredits)
        THEN Respond(r, InsufficientCredits(userCredits))
        ELSE run' = [run EXCEPT ![r].pc = "handler",
                                ![r].available = userCredits]
  /\ UNCHANGED <<HEYGEN_KEYS, orders, transactions, pay, requests, now, passed,
                 limited, keyUsageCount, users, videos, aiVideos, assets, jobs,
                 files, opening, added, purchases, acquired>>

\* checkVideoLimits, the account read failing: its catch answers 500.
CheckVideoLimitsError(r) ==
  /\ run[r].pc = "limits"
  /\ Respond(r, [status |-> 500, error |-> "Failed to check credits"])
  /\ UNCHANGED <<HEYGEN_KEYS, orders, transactions, pay, requests, now, passed,
                 limited, keyUsageCount, users, videos, aiVideos, assets, jobs,
                 files, opening, added, purchases, acquired>>

(* ------------------------------------------------------------------ *)
(* POST /api/generate-video                                           *)
(* ------------------------------------------------------------------ *)

InternalError(message) ==
  [status |-> 500, error |-> "Internal server error", message |-> message]

\* The handler up to its first await with script or avatar missing.
GenerateVideoInvalid(r) ==
  /\ run[r].pc = "handler"
  /\ run[r].ep = "generate-video"
  /\ Respond(r, [status |-> 400, error |-> "Script and avatar are required"])
  /\ UNCHANGED <<HEYGEN_KEYS, orders, transactions, pay, requests, now, passed,
                 limited, keyUsageCount, users, videos, aiVideos, assets, jobs,
                 files, opening, added, purchases, acquired>>

\* The values of req.body.orientation tried: absent, the three of the
\* table, and two the table does not have.
Orientations == {Undefined, "landscape", "portrait", "square", "custom", "Portrait"}

\* The values of req.body.customDimensions tried: absent, null, an object
\* with width and height, one with zeros, and an object without either.
CustomDimensions == {NoUrl, Null, Dim(640, 360), Dim(0, 0), <<"object">>}

\* Mutant: custom dimensions count only with orientation 'custom'.
DimensionsCustomOnly(orientation, customDimensions) ==
  IF ~FalsyUrl(customDimensions) /\ orientation = "custom" THEN customDimensions
  ELSE IF orientation = "portrait" THEN Dim(720, 1280)
  ELSE IF orientation = "square" THEN Dim(1080, 1080)
  ELSE Dim(1280, 720)

\* Step 2: `if (customDimensions) dimensions = customDimensions`, else the
\* switch on orientation, whose default (and the destructuring default of
\* an absent orientation) is landscape.
Dimensions(orientation, customDimensions) ==
  IF ~FalsyUrl(customDimensions) THEN customDimensions
  ELSE IF orientation = "portrait" THEN Dim(720, 1280)
  ELSE IF orientation = "square" THEN Dim(1080, 1080)
  ELSE Dim(1280, 720)

\* The handler up to its first await: the key is taken, 503 without one,
\* otherwise the dimensions are set and the job is posted to the provider.
GenerateVideoStart(r) ==
  /\ run[r].pc = "handler"
  /\ run[r].ep = "generate-video"
  /\ LET got == getNextHeyGenKey(HEYGEN_KEYS, keyUsageCount)
     IN /\ keyUsageCount' = got.usage
        /\ acquired' = Called(acquired, got, keyUsageCount)
        /\ IF FalsyKey(got.key)
           THEN Respond(r, [status |-> 503, error |-> "No API keys available"])
           ELSE run' = [run EXCEPT
                          ![r].pc = "submit",
                          ![r].apiKey = got.key,
                          ![r].dimension =
                            Dimensions(run[r].orientation,
                                       run[r].customDimensions)]
  /\ UNCHANGED <<HEYGEN_KEYS, orders, transactions, pay, requests, now, passed,
                 limited, users, videos, aiVideos, assets, jobs, files, opening,
                 added, purchases>>

\* Mutant: the ceiling test off by one, `<=` for `<`.
LoopCondInclusive(videoUrl, attempts) ==
  FalsyUrl(videoUrl) /\ attempts <= maxAttempts

\* while (!videoUrl && attempts < maxAttempts)
LoopCond(videoUrl, attempts) == FalsyUrl(videoUrl) /\ attempts < maxAttempts

\* Mutant: the timeout is decided by the attempts counted as well, so that
\* an answer to the last query comes too late.
AfterLoopByAttempts(r, rec) ==
  IF FalsyUrl(rec.videoUrl) \/ rec.attempts >= maxAttempts - 1
  THEN [rec EXCEPT !.pc = "done",
                   !.response = [status |-> 408,
                                 error |-> "Video generation timeout"]]
  ELSE [rec EXCEPT !.pc = "download"]

\* if (!videoUrl) return 408, after the loop; the download otherwise.
AfterLoop(r, rec) ==
  IF FalsyUrl(rec.videoUrl)
  THEN [rec EXCEPT !.pc = "done",
                   !.response = [status |-> 408,
                                 error |-> "Video generation timeout"]]
  ELSE [rec EXCEPT !.pc = "download"]

\* Mutant: the usage update is made as soon as the job is accepted, as
\* generate-video-with-ai makes it.
SubmitAcceptedCharging(r) ==
  /\ run[r].pc = "submit"
  /\ jobs' = jobs \cup {[by |-> r, key |-> run[r].apiKey]}
  /\ users' = updateUsage(users, run[r].uid, TRUE)
  /\ run' = [run EXCEPT ![r] =
               Charged([@ EXCEPT !.videoUrl = Null, !.attempts = 0,
                                 !.submitted.outcome = "accepted"],
                       users, users', "poll")]
  /\ UNCHANGED <<HEYGEN_KEYS, orders, transactions, pay, requests, now, passed,
                 limited, keyUsageCount, videos, aiVideos, assets, files,
                 opening, added, purchases, acquired>>

\* The provider accepts the job: video_id is read, the loop is entered.
SubmitAccepted(r) ==
  /\ run[r].pc = "submit"
  /\ jobs' = jobs \cup {[by |-> r, key |-> run[r].apiKey]}
  /\ LET rec == [run[r] EXCEPT !.videoUrl = Null, !.attempts = 0,
                               !.submitted.outcome = "accepted"]
     IN run' = [run EXCEPT ![r] = IF LoopCond(rec.videoUrl, rec.attempts)
                                   THEN [rec EXCEPT !.pc = "poll"]
                                   ELSE AfterLoop(r, rec)]
  /\ UNCHANGED <<HEYGEN_KEYS, orders, transactions, pay, requests, now, passed,
                 limited, keyUsageCount, users, videos, aiVideos, assets, files,
                 opening, added, purchases, acquired>>

ProviderErrorCodes == {401, 429}

\* The provider's non-2xx answer to the submission, as error.response.
ProviderError(code) ==
  [outcome |-> "rejected", status |-> code, body |-> <<"provider-body", code>>]

\* Mutant: the catch answers 500 whatever the error, as the catch of
\* generate-video-with-ai does.
SubmitRejectedGeneric(r, code) ==
  /\ run[r].pc = "submit"
  /\ run' = [run EXCEPT ![r].pc = "done",
                        ![r].submitted = ProviderError(code),
                        ![r].response = InternalError("submit")]
  /\ UNCHANGED <<HEYGEN_KEYS, orders, transactions, pay, requests, now, passed,
                 limited, keyUsageCount, users, videos, aiVideos, assets, jobs,
                 files, opening, added, purchases, acquired>>

\* The provider answers non-2xx: error.response is set, the outer catch
\* passes its status and body on.
SubmitRejected(r, code) ==
  /\ run[r].pc = "submit"
  /\ run' = [run EXCEPT ![r].pc = "done",
                        ![r].submitted = ProviderError(code),
                        ![r].response = [status |-> ProviderError(code).status,
                                         error |-> "HeyGen API Error",
                                         details |-> ProviderError(code).body]]
  /\ UNCHANGED <<HEYGEN_KEYS, orders, transactions, pay, requests, now, passed,
                 limited, keyUsageCount, users, videos, aiVideos, assets, jobs,
                 files, opening, added, purchases, acquired>>

\* The post fails without a response (network, timeout).
SubmitFailed(r) ==
  /\ run[r].pc = "submit"
  /\ run' = [run EXCEPT ![r].pc = "done",
                        ![r].submitted.outcome = "failed",
                        ![r].response = InternalError("submit")]
  /\ UNCHANGED <<HEYGEN_KEYS, orders, transactions, pay, requests, now, passed,
                 limited, keyUsageCount, users, videos, aiVideos, assets, jobs,
                 files, opening, added, purchases, acquired>>

Asset(r) == <<"asset", r>>

\* Mutant: a failed query is retried without being counted.
PollBodyErrorFree(attempts, videoUrl, answer, asset) ==
  IF answer = "completed"
  THEN [attempts |-> attempts, videoUrl |-> asset, broke |-> TRUE]
  ELSE IF answer = "completed-nourl"
  THEN [attempts |-> attempts, videoUrl |-> NoUrl, broke |-> TRUE]
  ELSE IF answer = "error"
  THEN [attempts |-> attempts, videoUrl |-> videoUrl, broke |-> FALSE]
  ELSE [attempts |-> attempts + 1, videoUrl |-> videoUrl, broke |-> FALSE]

\* One pass of the loop body on the answer of its status query: the
\* locals afterwards and whether the loop was left by `break`.  The throw
\* on `failed` is inside the try, so the catch of the query takes it, as it
\* takes a failed query; attempts++ follows unless the loop broke.
PollBody(attempts, videoUrl, answer, asset) ==
  IF answer = "completed"
  THEN [attempts |-> attempts, videoUrl |-> asset, broke |-> TRUE]
  ELSE IF answer = "completed-nourl"
  THEN [attempts |-> attempts, videoUrl |-> NoUrl, broke |-> TRUE]
  ELSE [attempts |-> attempts + 1, videoUrl |-> videoUrl, broke |-> FALSE]

\* Mutant: `attempts` and `videoUrl` declared outside the handler, one pair
\* for all requests.
PollIterationShared(r, answer) ==
  /\ run[r].pc = "poll"
  /\ LET out == PollBody(run[r].attempts, run[r].videoUrl, answer, Asset(r))
         rec == [run[r] EXCEPT !.attempts = out.attempts,
                               !.videoUrl = out.videoUrl,
                               !.status = answer,
                               !.queries = @ + 1]
     IN run' = [q \in Reqs |->
                  IF q = r
                  THEN IF ~out.broke /\ LoopCond(rec.videoUrl, rec.attempts)
                       THEN rec
                       ELSE AfterLoop(r, rec)
                  ELSE [run[q] EXCEPT !.attempts = out.attempts,
                                      !.videoUrl = out.videoUrl]]
  /\ UNCHANGED <<HEYGEN_KEYS, orders, transactions, pay, requests, now, passed,
                 limited, keyUsageCount, users, videos, aiVideos, assets, jobs,
                 files, opening, added, purchases, acquired>>

\* One iteration of the poll loop: the 5 s wait, the status query, the body,
\* and the loop condition again.
PollIteration(r, answer) ==
  /\ run[r].pc = "poll"
  /\ LET out == PollBody(run[r].attempts, run[r].videoUrl, answer, Asset(r))
         rec == [run[r] EXCEPT !.attempts = out.attempts,
                               !.videoUrl = out.videoUrl,
                               !.status = answer,
                               !.queries = @ + 1]
     IN run' = [run EXCEPT ![r] =
                  IF ~out.broke /\ LoopCond(rec.videoUrl, rec.attempts)
                  THEN rec
                  ELSE AfterLoop(r, rec)]
  /\ UNCHANGED <<HEYGEN_KEYS, orders, transactions, pay, requests, now, passed,
                 limited, keyUsageCount, users, videos, aiVideos, assets, jobs,
                 files, opening, added, purchases, acquired>>

\* Step 4, axios.get(videoUrl) answering non-2xx: error.response is set.
DownloadRejected(r, code) ==
  /\ run[r].pc = "download"
  /\ Respond(r, [status |-> code, error |-> "HeyGen API Error",
                 details |-> <<"asset-host-body", code>>])
  /\ UNCHANGED <<HEYGEN_KEYS, orders, transactions, pay, requests, now, passed,
                 limited, keyUsageCount, users, videos, aiVideos, assets, jobs,
                 files, opening, added, purchases, acquired>>

\* Step 4 failing without a response: the get itself (no file yet), or the
\* write stream after createWriteStream has made temp-*.mp4.
DownloadFailed(r, fileMade) ==
  /\ run[r].pc = "download"
  /\ files' = IF fileMade THEN files \cup {TempPath(r)} ELSE files
  /\ Respond(r, InternalError("download"))
  /\ UNCHANGED <<HEYGEN_KEYS, orders, transactions, pay, requests, now, passed,
                 limited, keyUsageCount, users, videos, aiVideos, assets, jobs,
                 opening, added, purchases, acquired>>

\* Step 4 done: temp-*.mp4 is written.
DownloadOk(r) ==
  /\ run[r].pc = "download"
  /\ files' = files \cup {TempPath(r)}
  /\ Goto(r, "crop")
  /\ UNCHANGED <<HEYGEN_KEYS, orders, transactions, pay, requests, now, passed,
                 limited, keyUsageCount, users, videos, aiVideos, assets, jobs,
                 opening, added, purchases, acquired>>

\* Step 5, removeWatermark resolving: ffmpeg has written clean-*.mp4.
RemoveWatermarkOk(r) ==
  /\ run[r].pc = "crop"
  /\ files' = files \cup {CleanPath(r)}
  /\ Goto(r, "upload")
  /\ UNCHANGED <<HEYGEN_KEYS, orders, transactions, pay, requests, now, passed,
                 limited, keyUsageCount, users, videos, aiVideos, assets, jobs,
                 opening, added, purchases, acquired>>

\* Step 5, removeWatermark rejecting: ffmpeg may have left a partial output.
RemoveWatermarkError(r, partial) ==
  /\ run[r].pc = "crop"
  /\ files' = IF partial THEN files \cup {CleanPath(r)} ELSE files
  /\ Respond(r, InternalError("ffmpeg"))
  /\ UNCHANGED <<HEYGEN_KEYS, orders, transactions, pay, requests, now, passed,
                 limited, keyUsageCount, users, videos, aiVideos, assets, jobs,
                 opening, added, purchases, acquired>>

\* Mutant: the usage update is made after the upload, before the record.
UploadOkCharging(r) ==
  /\ run[r].pc = "upload"
  /\ users' = updateUsage(users, run[r].uid, TRUE)
  /\ run' = [run EXCEPT ![r] = Charged(@, users, users', "store")]
  /\ UNCHANGED <<HEYGEN_KEYS, orders, transactions, pay, requests, now, passed,
                 limited, keyUsageCount, videos, aiVideos, assets, jobs,
                 files, opening, added, purchases, acquired>>

\* Step 6, uploadToCatbox returning the public URL.
UploadOk(r) ==
  /\ run[r].pc = "upload"
  /\ run' = [run EXCEPT ![r].pc = "store", ![r].uploads = @ + 1]
  /\ UNCHANGED <<HEYGEN_KEYS, orders, transactions, pay, requests, now, passed,
                 limited, keyUsageCount, users, videos, aiVideos, assets, jobs,
                 files, opening, added, purchases, acquired>>

\* Mutant: a failed post to the host is made again.
UploadErrorRetrying(r) ==
  /\ run[r].pc = "upload"
  /\ UNCHANGED files
  /\ run' = [run EXCEPT ![r].uploads = @ + 1]
  /\ UNCHANGED <<HEYGEN_KEYS, orders, transactions, pay, requests, now, passed,
                 limited, keyUsageCount, users, videos, aiVideos, assets, jobs,
                 opening, added, purchases, acquired>>

\* Step 6, uploadToCatbox throwing its own Error (non-2xx, timeout).
UploadError(r) ==
  /\ run[r].pc = "upload"
  /\ UNCHANGED files
  /\ run' = [run EXCEPT ![r].pc = "done", ![r].uploads = @ + 1,
                        ![r].response =
                          InternalError("Failed to upload video to Catbox")]
  /\ UNCHANGED <<HEYGEN_KEYS, orders, transactions, pay, requests, now, passed,
                 limited, keyUsageCount, users, videos, aiVideos, assets, jobs,
                 opening, added, purchases, acquired>>

\* Mutant: the document is written as the ai-videos one is, 'processing'.
VideoRecordProcessing(r) ==
  [userId |-> run[r].uid, originalUrl |-> run[r].videoUrl,
   processedUrl |-> <<"catbox", r>>, status |-> "processing", by |-> r]

\* The document storeVideoUrl sets: ...videoData, status: 'completed'
\* (`by` is history: the request that wrote it).
VideoRecord(r) ==
  [userId |-> run[r].uid, originalUrl |-> run[r].videoUrl,
   processedUrl |-> <<"catbox", r>>, status |-> "completed", by |-> r]

\* Step 7, storeVideoUrl: docRef.set applied.
StoreVideoUrlOk(r) ==
  /\ run[r].pc = "store"
  /\ videos' = Append(videos, VideoRecord(r))
  /\ run' = [run EXCEPT ![r].pc = "commit", ![r].storedVideoId = Len(videos')]
  /\ UNCHANGED <<HEYGEN_KEYS, orders, transactions, pay, requests, now, passed,
                 limited, keyUsageCount, users, aiVideos, assets, jobs, files,
                 opening, added, purchases, acquired>>

\* Step 7, storeVideoUrl: docRef.set rejected, the error is rethrown.
StoreVideoUrlError(r) ==
  /\ run[r].pc = "store"
  /\ UNCHANGED files
  /\ Respond(r, InternalError("firestore"))
  /\ UNCHANGED <<HEYGEN_KEYS, orders, transactions, pay, requests, now, passed,
                 limited, keyUsageCount, users, videos, aiVideos, assets, jobs,
                 opening, added, purchases, acquired>>

\* await updateUsage(req.user.uid, 'video'): the store applies the update
\* or rejects it; either way updateUsage returns normally.
UpdateUsageVideo(r, storeOk) ==
  /\ run[r].pc = "commit"
  /\ users' = updateUsage(users, run[r].uid, storeOk)
  /\ run' = [run EXCEPT ![r] = Charged(@, users, users', "cleanup")]
  /\ UNCHANGED <<HEYGEN_KEYS, orders, transactions, pay, requests, now, passed,
                 limited, keyUsageCount, videos, aiVideos, assets, jobs, files,
                 opening, added, purchases, acquired>>

\* Step 8 and 9: both removeSync calls, then the success response.
Cleanup(r) ==
  /\ run[r].pc = "cleanup"
  /\ files' = files \ {TempPath(r), CleanPath(r)}
  /\ Respond(r, [status |-> 200, error |-> "none", success |-> TRUE,
                 videoId |-> run[r].storedVideoId,
                 videoUrl |-> <<"catbox", r>>])
  /\ UNCHANGED <<HEYGEN_KEYS, orders, transactions, pay, requests, now, passed,
                 limited, keyUsageCount, users, videos, aiVideos, assets, jobs,
                 opening, added, purchases, acquired>>

(* ------------------------------------------------------------------ *)
(* POST /api/generate-video-with-ai                                   *)
(* ------------------------------------------------------------------ *)

AiFailed == [status |-> 500, error |-> "AI video generation failed"]

\* The handler with topic or avatar missing.
AiInvalid(r) ==
  /\ run[r].pc = "handler"
  /\ run[r].ep = "generate-video-with-ai"
  /\ Respond(r, [status |-> 400, error |-> "Topic and avatar are required"])
  /\ UNCHANGED <<HEYGEN_KEYS, orders, transactions, pay, requests, now, passed,
                 limited, keyUsageCount, users, videos, aiVideos, assets, jobs,
                 files, opening, added, purchases, acquired>>

\* The handler up to its first await: the script is asked of Groq.
AiStart(r) ==
  /\ run[r].pc = "handler"
  /\ run[r].ep = "generate-video-with-ai"
  /\ Goto(r, "ai-script")
  /\ UNCHANGED <<HEYGEN_KEYS, orders, transactions, pay, requests, now, passed,
                 limited, keyUsageCount, users, videos, aiVideos, assets, jobs,
                 files, opening, added, purchases, acquired>>

\* Groq fails or returns no script: the catch answers 500.
AiScriptFailed(r) ==
  /\ run[r].pc = "ai-script"
  /\ Respond(r, AiFailed)
  /\ UNCHANGED <<HEYGEN_KEYS, orders, transactions, pay, requests, now, passed,
                 limited, keyUsageCount, users, videos, aiVideos, assets, jobs,
                 files, opening, added, purchases, acquired>>

\* Groq returns the script: the key is taken, 503 without one, otherwise
\* the job is posted to the provider.
AiScriptOk(r) ==
  /\ run[r].pc = "ai-script"
  /\ LET got == getNextHeyGenKey(HEYGEN_KEYS, keyUsageCount)
     IN /\ keyUsageCount' = got.usage
        /\ acquired' = Called(acquired, got, keyUsageCount)
        /\ IF FalsyKey(got.key)
           THEN Respond(r, [status |-> 503, error |-> "No API keys available"])
           ELSE run' = [run EXCEPT ![r].pc = "ai-submit", ![r].apiKey = got.key]
  /\ UNCHANGED <<HEYGEN_KEYS, orders, transactions, pay, requests, now, passed,
                 limited, users, videos, aiVideos, assets, jobs, files, opening,
                 added, purchases>>

\* The provider accepts the job: video_id is read, the ai-videos document
\* is added next.
AiSubmitAccepted(r) ==
  /\ run[r].pc = "ai-submit"
  /\ jobs' = jobs \cup {[by |-> r, key |-> run[r].apiKey]}
  /\ Goto(r, "ai-store")
  /\ UNCHANGED <<HEYGEN_KEYS, orders, transactions, pay, requests, now, passed,
                 limited, keyUsageCount, users, videos, aiVideos, assets, files,
                 opening, added, purchases, acquired>>

\* The post fails, with or without a response: this catch answers 500.
AiSubmitFailed(r) ==
  /\ run[r].pc = "ai-submit"
  /\ Respond(r, AiFailed)
  /\ UNCHANGED <<HEYGEN_KEYS, orders, transactions, pay, requests, now, passed,
                 limited, keyUsageCount, users, videos, aiVideos, assets, jobs,
                 files, opening, added, purchases, acquired>>

\* collection('ai-videos').add(combinedData) applied: status 'processing'.
AiStoreOk(r) ==
  /\ run[r].pc = "ai-store"
  /\ aiVideos' = aiVideos \cup {[id |-> <<"ai-video", r>>, userId |-> run[r].uid,
                                  status |-> "processing"]}
  /\ Goto(r, "ai-usage")
  /\ UNCHANGED <<HEYGEN_KEYS, orders, transactions, pay, requests, now, passed,
                 limited, keyUsageCount, users, videos, assets, jobs, files,
                 opening, added, purchases, acquired>>

\* collection('ai-videos').add rejected.
AiStoreError(r) ==
  /\ run[r].pc = "ai-store"
  /\ Respond(r, AiFailed)
  /\ UNCHANGED <<HEYGEN_KEYS, orders, transactions, pay, requests, now, passed,
                 limited, keyUsageCount, users, videos, aiVideos, assets, jobs,
                 files, opening, added, purchases, acquired>>

\* await updateUsage(req.user.uid, 'video'), right after the job was
\* submitted.
AiUpdateUsageVideo(r, storeOk) ==
  /\ run[r].pc = "ai-usage"
  /\ users' = updateUsage(users, run[r].uid, storeOk)
  /\ run' = [run EXCEPT ![r] = Charged(@, users, users', "ai-usage-script")]
  /\ UNCHANGED <<HEYGEN_KEYS, orders, transactions, pay, requests, now, passed,
                 limited, keyUsageCount, videos, aiVideos, assets, jobs, files,
                 opening, added, purchases, acquired>>

\* await updateUsage(req.user.uid, 'script') (no credit field changes),
\* then the response: 'video creation started'.
AiUpdateUsageScript(r) ==
  /\ run[r].pc = "ai-usage-script"
  /\ Respond(r, [status |-> 200, error |-> "none", success |-> TRUE,
                 id |-> <<"ai-video", r>>])
  /\ UNCHANGED <<HEYGEN_KEYS, orders, transactions, pay, requests, now, passed,
                 limited, keyUsageCount, users, videos, aiVideos, assets, jobs,
                 files, opening, added, purchases, acquired>>

(* ------------------------------------------------------------------ *)
(* POST /api/pricing/add-credits                                      *)
(* ------------------------------------------------------------------ *)

PurchaseAmounts == {MIN_PURCHASE}

\* POST /add-credits by user u for an amount its validation lets through:
\* verifyToken, then userRef.update({credits: increment(credits), ...}).
AddCredits(u, credits) ==
  /\ purchases < MaxPurchases
  /\ users' = [EnsureUser(users, u) EXCEPT ![u] = Increment(@, "credits", credits)]
  /\ added' = [added EXCEPT ![u] = @ + credits]
  /\ purchases' = purchases + 1
  /\ UNCHANGED <<HEYGEN_KEYS, orders, transactions, pay, requests, now, passed,
                 limited, keyUsageCount, videos, aiVideos, assets, jobs, files,
                 run, opening, acquired>>

(* ------------------------------------------------------------------ *)
(* POST /api/template/:templateId/generate                            *)
(* ------------------------------------------------------------------ *)

\* The route has no middleware.  No template of CUSTOM_TEMPLATES has the id.
TemplateNotFound(r) ==
  /\ run[r].pc = "idle"
  /\ run' = [run EXCEPT ![r].pc = "done", ![r].ep = "template-generate",
                        ![r].response = [status |-> 404,
                                         error |-> "Template not found"]]
  /\ UNCHANGED <<HEYGEN_KEYS, orders, transactions, pay, requests, now, passed,
                 limited, keyUsageCount, users, videos, aiVideos, assets,
                 jobs, files, opening, added, purchases, acquired>>

\* The handler up to its first await: the key is taken, 503 without one,
\* otherwise the job is posted to the provider.
TemplateStart(r) ==
  /\ run[r].pc = "idle"
  /\ LET got == getNextHeyGenKey(HEYGEN_KEYS, keyUsageCount)
     IN /\ keyUsageCount' = got.usage
        /\ acquired' = Called(acquired, got, keyUsageCount)
        /\ run' = [run EXCEPT ![r] =
                     IF FalsyKey(got.key)
                     THEN [@ EXCEPT !.pc = "done", !.ep = "template-generate",
                                    !.response = [status |-> 503,
                                                  error |-> "No API keys available"]]
                     ELSE [@ EXCEPT !.pc = "template-submit",
                                    !.ep = "template-generate",
                                    !.apiKey = got.key]]
  /\ UNCHANGED <<HEYGEN_KEYS, orders, transactions, pay, requests, now, passed,
                 limited, users, videos, aiVideos, assets, jobs, files,
                 opening, added, purchases>>

\* The provider accepts the job: 'Template video generation started'.
TemplateSubmitAccepted(r) ==
  /\ run[r].pc = "template-submit"
  /\ jobs' = jobs \cup {[by |-> r, key |-> run[r].apiKey]}
  /\ Respond(r, [status |-> 200, error |-> "none", success |-> TRUE])
  /\ UNCHANGED <<HEYGEN_KEYS, orders, transactions, pay, requests, now, passed,
                 limited, keyUsageCount, users, videos, aiVideos, assets,
                 files, opening, added, purchases, acquired>>

\* The post fails, with or without a response: this catch answers 500.
TemplateSubmitFailed(r) ==
  /\ run[r].pc = "template-submit"
  /\ Respond(r, [status |-> 500,
                 error |-> "Failed to generate video from template"])
  /\ UNCHANGED <<HEYGEN_KEYS, orders, transactions, pay, requests, now, passed,
                 limited, keyUsageCount, users, videos, aiVideos, assets,
                 jobs, files, opening, added, purchases, acquired>>

(* ------------------------------------------------------------------ *)
(* POST /api/upload-asset                                             *)
(* ------------------------------------------------------------------ *)

\* req.file.path, the file multer stored.
UploadPath(r) == <<"upload", r>>

\* verifyToken with a valid token of user u, then upload.single('file'):
\* the part named file, when the request has one, is stored on disk.
UploadAssetVerified(r, u, hasFile) ==
  /\ run[r].pc = "idle"
  /\ run' = [run EXCEPT ![r].pc = "handler", ![r].ep = "upload-asset",
                        ![r].uid = u]
  /\ files' = IF hasFile THEN files \cup {UploadPath(r)} ELSE files
  /\ users' = EnsureUser(users, u)
  /\ UNCHANGED <<HEYGEN_KEYS, orders, transactions, pay, requests, now, passed,
                 limited, keyUsageCount, videos, aiVideos, assets,
                 jobs, opening, added, purchases, acquired>>

\* if (!req.file)
AssetNoFile(r) ==
  /\ run[r].pc = "handler"
  /\ run[r].ep = "upload-asset"
  /\ UploadPath(r) \notin files
  /\ Respond(r, [status |-> 400, error |-> "No file uploaded"])
  /\ UNCHANGED <<HEYGEN_KEYS, orders, transactions, pay, requests, now, passed,
                 limited, keyUsageCount, users, videos, aiVideos, assets,
                 jobs, files, opening, added, purchases, acquired>>

\* The handler up to its first await: the key is taken, 503 without one
\* (the stored file stays), otherwise the file is posted to the provider.
AssetStart(r) ==
  /\ run[r].pc = "handler"
  /\ run[r].ep = "upload-asset"
  /\ UploadPath(r) \in files
  /\ LET got == getNextHeyGenKey(HEYGEN_KEYS, keyUsageCount)
     IN /\ keyUsageCount' = got.usage
        /\ acquired' = Called(acquired, got, keyUsageCount)
        /\ IF FalsyKey(got.key)
           THEN Respond(r, [status |-> 503, error |-> "No API keys available"])
           ELSE run' = [run EXCEPT ![r].pc = "asset-upload",
                                   ![r].apiKey = got.key]
  /\ UNCHANGED <<HEYGEN_KEYS, orders, transactions, pay, requests, now, passed,
                 limited, users, videos, aiVideos, assets, jobs, files,
                 opening, added, purchases>>

\* The provider takes the file: fs.removeSync(filePath), then the assets
\* document is added.
AssetUploadOk(r) ==
  /\ run[r].pc = "asset-upload"
  /\ files' = files \ {UploadPath(r)}
  /\ Goto(r, "asset-store")
  /\ UNCHANGED <<HEYGEN_KEYS, orders, transactions, pay, requests, now, passed,
                 limited, keyUsageCount, users, videos, aiVideos, assets,
                 jobs, opening, added, purchases, acquired>>

\* The provider answers non-2xx: the catch removes the file and passes the
\* provider's status and body on.
AssetUploadRejected(r, code) ==
  /\ run[r].pc = "asset-upload"
  /\ files' = files \ {UploadPath(r)}
  /\ Respond(r, [status |-> code, error |-> "HeyGen upload failed",
                 details |-> <<"provider-body", code>>])
  /\ UNCHANGED <<HEYGEN_KEYS, orders, transactions, pay, requests, now, passed,
                 limited, keyUsageCount, users, videos, aiVideos, assets,
                 jobs, opening, added, purchases, acquired>>

\* The post fails without a response: the catch removes the file, 500.
AssetUploadFailed(r) ==
  /\ run[r].pc = "asset-upload"
  /\ files' = files \ {UploadPath(r)}
  /\ Respond(r, [status |-> 500, error |-> "Asset upload failed"])
  /\ UNCHANGED <<HEYGEN_KEYS, orders, transactions, pay, requests, now, passed,
                 limited, keyUsageCount, users, videos, aiVideos, assets,
                 jobs, opening, added, purchases, acquired>>

\* collection('assets').add(assetData) applied: status 'uploaded'.
AssetStoreOk(r) ==
  /\ run[r].pc = "asset-store"
  /\ assets' = assets \cup {[id |-> <<"asset-doc", r>>, userId |-> run[r].uid,
                              status |-> "uploaded"]}
  /\ Respond(r, [status |-> 200, error |-> "none", success |-> TRUE,
                 assetId |-> <<"asset-doc", r>>])
  /\ UNCHANGED <<HEYGEN_KEYS, orders, transactions, pay, requests, now, passed,
                 limited, keyUsageCount, users, videos, aiVideos, jobs,
                 files, opening, added, purchases, acquired>>

\* collection('assets').add rejected: the catch removes the file again (it
\* is gone already) and answers 500.
AssetStoreError(r) ==
  /\ run[r].pc = "asset-store"
  /\ files' = files \ {UploadPath(r)}
  /\ Respond(r, [status |-> 500, error |-> "Asset upload failed"])
  /\ UNCHANGED <<HEYGEN_KEYS, orders, transactions, pay, requests, now, passed,
                 limited, keyUsageCount, users, videos, aiVideos, assets,
                 jobs, opening, added, purchases, acquired>>

(* ------------------------------------------------------------------ *)
(* POST /api/auth/register                                            *)
(* ------------------------------------------------------------------ *)

\* /register with uid u and an email: the users document is set when there
\* is none; an existing one gets lastLogin, displayName and photoURL.
Register(u) ==
  /\ users' = EnsureUser(users, u)
  /\ users' # users
  /\ UNCHANGED <<HEYGEN_KEYS, orders, transactions, pay, requests, now, passed,
                 limited, keyUsageCount, videos, aiVideos, assets, jobs,
                 files, run, opening, added, purchases, acquired>>

(* ------------------------------------------------------------------ *)
(* POST /api/payment/verify                                           *)
(* ------------------------------------------------------------------ *)

\* The variables /payment/verify neither reads nor writes.
nonPayVars ==
  <<HEYGEN_KEYS, keyUsageCount, videos, aiVideos, assets, jobs, files, run,
    opening, added, purchases, acquired, requests, now, passed, limited>>

\* A users document with the fields /payment/verify writes as well.
PayAccount(c) ==
  [credits |-> c, creditsUsed |-> 0, videosGenerated |-> 0,
   plan |-> "free", totalSpent |-> 0]

\* The order documents create-order/credits and create-order/subscription
\* store: status 'created'.
CreditsOrder(uid, credits) ==
  [exists |-> TRUE, userId |-> uid, type |-> "credits", planId |-> "none",
   credits |-> credits, amount |-> credits * 4, status |-> "created"]

SubscriptionOrder(uid) ==
  [exists |-> TRUE, userId |-> uid, type |-> "subscription",
   planId |-> "basic", credits |-> 400, amount |-> 899, status |-> "created"]

PayRespond(p, resp) ==
  pay' = [pay EXCEPT ![p].pc = "done", ![p].response = resp]

PayFailed == [status |-> 500, error |-> "Payment verification failed"]

\* verifyToken with a valid token of user u, for a body naming order o.
PayVerifyToken(p, u, o) ==
  /\ pay[p].pc = "idle"
  /\ pay' = [pay EXCEPT ![p].pc = "signature", ![p].uid = u, ![p].order = o]
  /\ users' = EnsureUser(users, u)
  /\ UNCHANGED <<orders, transactions>>
  /\ UNCHANGED nonPayVars

\* verifyToken without a token, or with one verifyIdToken rejects.
PayTokenRejected(p) ==
  /\ pay[p].pc = "idle"
  /\ PayRespond(p, [status |-> 401, error |-> "Authentication required"])
  /\ UNCHANGED <<users, orders, transactions>>
  /\ UNCHANGED nonPayVars

\* The handler up to its first await: the HMAC of order id and payment id
\* is compared with razorpay_signature; 400 when they differ, otherwise the
\* order document is asked for.
PaySignature(p, signatureOk) ==
  /\ pay[p].pc = "signature"
  /\ IF signatureOk
     THEN pay' = [pay EXCEPT ![p].pc = "order-get"]
     ELSE PayRespond(p, [status |-> 400, error |-> "Invalid payment signature"])
  /\ UNCHANGED <<users, orders, transactions>>
  /\ UNCHANGED nonPayVars

\* Mutant: an order another user owns is marked completed as it is refused.
PayOrderReadMarking(p) ==
  /\ pay[p].pc = "order-get"
  /\ LET orderData == orders[pay[p].order]
     IN /\ pay' = [pay EXCEPT ![p] =
                     IF orderData = NoOrder
                     THEN [@ EXCEPT !.pc = "done",
                                    !.response = [status |-> 404,
                                                  error |-> "Order not found"]]
                     ELSE IF orderData.userId # pay[p].uid
                     THEN [@ EXCEPT !.pc = "done",
                                    !.response = [status |-> 403,
                                                  error |-> "Unauthorized"]]
                     ELSE IF orderData.status = "completed"
                     THEN [@ EXCEPT !.pc = "done",
                                    !.response = [status |-> 400,
                                                  error |-> "Order already processed"]]
                     ELSE [@ EXCEPT !.pc = "user-update",
                                    !.orderData = orderData]]
        /\ orders' = IF orderData # NoOrder /\ orderData.userId # pay[p].uid
                     THEN [orders EXCEPT ![pay[p].order].status = "completed"]
                     ELSE orders
  /\ UNCHANGED <<users, transactions>>
  /\ UNCHANGED nonPayVars

\* The order document arrives: 404 without one, 403 for another user's,
\* 400 for one already completed; otherwise the user update is sent.
PayOrderRead(p) ==
  /\ pay[p].pc = "order-get"
  /\ LET orderData == orders[pay[p].order]
     IN pay' = [pay EXCEPT ![p] =
                  IF orderData = NoOrder
                  THEN [@ EXCEPT !.pc = "done",
                                 !.response = [status |-> 404,
                                               error |-> "Order not found"]]
                  ELSE IF orderData.userId # pay[p].uid
                  THEN [@ EXCEPT !.pc = "done",
                                 !.response = [status |-> 403,
                                               error |-> "Unauthorized"]]
                  ELSE IF orderData.status = "completed"
                  THEN [@ EXCEPT !.pc = "done",
                                 !.response = [status |-> 400,
                                               error |-> "Order already processed"]]
                  ELSE [@ EXCEPT !.pc = "user-update",
                                 !.orderData = orderData]]
  /\ UNCHANGED <<users, orders, transactions>>
  /\ UNCHANGED nonPayVars

\* The read of the order document fails: the catch answers 500.
PayOrderReadError(p) ==
  /\ pay[p].pc = "order-get"
  /\ PayRespond(p, PayFailed)
  /\ UNCHANGED <<users, orders, transactions>>
  /\ UNCHANGED nonPayVars

\* userRef.update of /verify: credits and totalSpent are incremented by the
\* order's, and a subscription order sets the plan as well.
PayUserDoc(doc, orderData) ==
  LET paid == Increment(Increment(doc, "credits", orderData.credits),
                        "totalSpent", orderData.amount)
  IN IF orderData.type = "subscription"
     THEN [f \in (DOMAIN paid) \cup {"plan"} |->
             IF f = "plan" THEN orderData.planId ELSE paid[f]]
     ELSE paid

\* The user update is applied; the order's status is updated next.
PayUserUpdate(p) ==
  /\ pay[p].pc = "user-update"
  /\ users' = [users EXCEPT ![pay[p].uid] = PayUserDoc(@, pay[p].orderData)]
  /\ pay' = [pay EXCEPT ![p].pc = "order-update",
                        ![p].credited = @ + pay[p].orderData.credits]
  /\ UNCHANGED <<orders, transactions>>
  /\ UNCHANGED nonPayVars

\* The user update is rejected: the catch answers 500.
PayUserUpdateError(p) ==
  /\ pay[p].pc = "user-update"
  /\ PayRespond(p, PayFailed)
  /\ UNCHANGED <<users, orders, transactions>>
  /\ UNCHANGED nonPayVars

\* The order's status is set to 'completed'; the transaction is added next.
PayOrderUpdate(p) ==
  /\ pay[p].pc = "order-update"
  /\ orders' = [orders EXCEPT ![pay[p].order].status = "completed"]
  /\ pay' = [pay EXCEPT ![p].pc = "transaction", ![p].wrote = TRUE]
  /\ UNCHANGED <<users, transactions>>
  /\ UNCHANGED nonPayVars

\* The update of the order is rejected, after the credits were added: the
\* catch answers 500 and the order stays 'created'.
PayOrderUpdateError(p) ==
  /\ pay[p].pc = "order-update"
  /\ PayRespond(p, PayFailed)
  /\ UNCHANGED <<users, orders, transactions>>
  /\ UNCHANGED nonPayVars

\* collection('transactions').add applied; the user document is read next.
PayTransaction(p) ==
  /\ pay[p].pc = "transaction"
  /\ transactions' = transactions \cup
       {[by |-> p, userId |-> pay[p].uid, orderId |-> pay[p].order,
         credits |-> pay[p].orderData.credits, status |-> "completed"]}
  /\ pay' = [pay EXCEPT ![p].pc = "user-get"]
  /\ UNCHANGED <<users, orders>>
  /\ UNCHANGED nonPayVars

\* collection('transactions').add rejected: the catch answers 500.
PayTransactionError(p) ==
  /\ pay[p].pc = "transaction"
  /\ PayRespond(p, PayFailed)
  /\ UNCHANGED <<users, orders, transactions>>
  /\ UNCHANGED nonPayVars

\* The user document arrives: 'Payment successful', with the balance read.
PaySuccess(p) ==
  /\ pay[p].pc = "user-get"
  /\ PayRespond(p, [status |-> 200, error |-> "none", success |-> TRUE,
                    credits |-> pay[p].orderData.credits,
                    totalCredits |-> Credits(users[pay[p].uid])])
  /\ UNCHANGED <<users, orders, transactions>>
  /\ UNCHANGED nonPayVars

\* The last read of the user document fails: the catch answers 500.
PaySuccessError(p) ==
  /\ pay[p].pc = "user-get"
  /\ PayRespond(p, PayFailed)
  /\ UNCHANGED <<users, orders, transactions>>
  /\ UNCHANGED nonPayVars

(* ------------------------------------------------------------------ *)
(* Specifications                                                     *)
(* ------------------------------------------------------------------ *)

\* The answers status query number n may get: any of them, or, with
\* `early`, those of a provider that answers every query, with `processing`
\* or, on the first MaxEarlyPoll queries and on the last, `completed`.
AnswersAt(n, early) ==
  IF ~early THEN PollAnswers
  ELSE IF n <= MaxEarlyPoll \/ n >= maxAttempts
       THEN {"processing", "completed"}
       ELSE {"processing"}

\* The middleware of request r, for an endpoint of E and a user of U.
Middleware(r, E, U) ==
  \/ \E ep \in E, u \in U : VerifyToken(r, ep, u)
  \/ \E ep \in E : VerifyTokenRejected(r, ep)
  \/ CheckVideoLimits(r)
  \/ CheckVideoLimitsError(r)

\* The continuations of the generate-video handler for request r.
GenerateVideo(r, early) ==
  \/ GenerateVideoInvalid(r)
  \/ GenerateVideoStart(r)
  \/ SubmitAccepted(r)
  \/ \E code \in ProviderErrorCodes : SubmitRejected(r, code)
  \/ SubmitFailed(r)
  \/ \E a \in AnswersAt(run[r].attempts + 1, early) : PollIteration(r, a)
  \/ \E code \in ProviderErrorCodes : DownloadRejected(r, code)
  \/ \E fileMade \in BOOLEAN : DownloadFailed(r, fileMade)
  \/ DownloadOk(r)
  \/ RemoveWatermarkOk(r)
  \/ \E partial \in BOOLEAN : RemoveWatermarkError(r, partial)
  \/ UploadOk(r)
  \/ UploadError(r)
  \/ StoreVideoUrlOk(r)
  \/ StoreVideoUrlError(r)
  \/ \E storeOk \in BOOLEAN : UpdateUsageVideo(r, storeOk)
  \/ Cleanup(r)

\* The continuations of the generate-video-with-ai handler for request r.
GenerateVideoWithAi(r) ==
  \/ AiInvalid(r)
  \/ AiStart(r)
  \/ AiScriptFailed(r)
  \/ AiScriptOk(r)
  \/ AiSubmitAccepted(r)
  \/ AiSubmitFailed(r)
  \/ AiStoreOk(r)
  \/ AiStoreError(r)
  \/ \E storeOk \in BOOLEAN : AiUpdateUsageVideo(r, storeOk)
  \/ AiUpdateUsageScript(r)

Purchase == \E u \in Users, c \in PurchaseAmounts : AddCredits(u, c)

\* The steps of the one request of Spec.
Step ==
  \/ Middleware("r1", Endpoints, Users)
  \/ GenerateVideo("r1", FALSE)
  \/ GenerateVideoWithAi("r1")

\* One request, to either endpoint, by either user, against any provider
\* behaviour, and credit purchases.
Next == Step \/ Purchase

Spec == Init /\ [][Next]_vars

\* Two concurrent generate-video requests of the same account, against two
\* configured keys, and credit purchases.
ConcInit ==
  /\ Init
  /\ HEYGEN_KEYS = <<"k1", "k2">>
  /\ users["u1"].credits >= CREDITS_PER_VIDEO
  /\ users["u2"] = Account(0)

ConcStep(r) ==
  \/ Middleware(r, {"generate-video"}, {"u1"})
  \/ GenerateVideo(r, TRUE)

ConcPurchase == \E c \in PurchaseAmounts : AddCredits("u1", c)

ConcNext == (\E r \in Reqs : ConcStep(r)) \/ ConcPurchase

ConcSpec == ConcInit /\ [][ConcNext]_vars

\* The same two requests where the continuations of r2 run in the end and
\* those of r1 need not: r1 may stay suspended at any await for ever.
ConcLiveSpec == ConcInit /\ [][ConcNext]_vars /\ WF_vars(ConcStep("r2"))

(* ------------------------------------------------------------------ *)
(* The key pool alone                                                 *)
(* ------------------------------------------------------------------ *)

\* The pools of up to three keys the pool specification starts from; the
\* same key may be configured twice.
PoolConfigs ==
  {<< >>, <<"">>, <<"k1">>, <<"k1", "k2">>, <<"k1", "k1">>,
   <<"k1", "k2", "k3">>, <<"k1", "k2", "k1">>}

\* A handler calls getNextHeyGenKey(): generate-video, generate-video-with-ai,
\* template generate and upload-asset all do, each in one continuation.
AcquireCall ==
  /\ acquired.calls < MaxAcquires
  /\ LET got == getNextHeyGenKey(HEYGEN_KEYS, keyUsageCount)
     IN /\ keyUsageCount' = got.usage
        /\ acquired' = Called(acquired, got, keyUsageCount)
  /\ UNCHANGED <<HEYGEN_KEYS, orders, transactions, pay, requests, now, passed,
                 limited, users, videos, aiVideos, assets, jobs, files, run,
                 opening, added, purchases>>

PoolInit ==
  /\ HEYGEN_KEYS \in PoolConfigs
  /\ keyUsageCount = << >>
  /\ users = [u \in Users |-> Account(0)]
  /\ videos = << >>
  /\ aiVideos = {}
  /\ assets = {}
  /\ NoPayments
  /\ NoLimiter
  /\ jobs = {}
  /\ files = {}
  /\ run = [r \in Reqs |-> IdleRun]
  /\ opening = users
  /\ added = [u \in Users |-> 0]
  /\ purchases = 0
  /\ acquired = NoCall

PoolSpec == PoolInit /\ [][AcquireCall]_vars

\* One request against two configured keys and accounts of 25 credits,
\* every continuation that can run running in the end: timers fire, and
\* every awaited call is answered or fails.
LiveInit ==
  /\ Init
  /\ HEYGEN_KEYS = <<"k1", "k2">>
  /\ users = [u \in Users |-> Account(25)]

LiveSpec == LiveInit /\ [][Next]_vars /\ WF_vars(Step)

(* ------------------------------------------------------------------ *)
(* Concurrent requests to the four routes that take a key             *)
(* ------------------------------------------------------------------ *)

\* The counters of a pool of distinct keys after n calls of
\* getNextHeyGenKey from empty counters, for n up to the keys times the
\* quota: the keys are filled in order, ten calls each.
UsageFilled(keys, n) ==
  [k \in {keys[i] : i \in {j \in 1..Len(keys) : (j - 1) * KEY_QUOTA < n}}
     |-> LET i == CHOOSE j \in 1..Len(keys) : keys[j] = k
         IN IF n - (i - 1) * KEY_QUOTA < KEY_QUOTA
            THEN n - (i - 1) * KEY_QUOTA
            ELSE KEY_QUOTA]

\* The pool after those n calls: the counters and the history of call n.
PoolFilled(keys, n) ==
  [usage |-> UsageFilled(keys, n),
   acquired |-> IF n = 0 THEN NoCall
                ELSE [calls |-> n,
                      key |-> keys[((n - 1) \div KEY_QUOTA) + 1],
                      before |-> (n - 1) % KEY_QUOTA,
                      reset |-> FALSE,
                      sinceReset |-> n,
                      usageBefore |-> UsageFilled(keys, n - 1)]]

\* The calls made before the two requests arrive: the first key has one
\* slot left, the second has one slot left, no key has a slot left.
PriorCalls == {KEY_QUOTA - 1, 2 * KEY_QUOTA - 1, 2 * KEY_QUOTA}

AcqInit ==
  /\ HEYGEN_KEYS = <<"k1", "k2">>
  /\ \E n \in PriorCalls :
       /\ keyUsageCount = PoolFilled(HEYGEN_KEYS, n).usage
       /\ acquired = PoolFilled(HEYGEN_KEYS, n).acquired
  /\ users = [u \in Users |-> Account(CREDITS_PER_VIDEO)]
  /\ videos = << >>
  /\ aiVideos = {}
  /\ assets = {}
  /\ NoPayments
  /\ NoLimiter
  /\ jobs = {}
  /\ files = {}
  /\ run = [r \in Reqs |-> IdleRun]
  /\ opening = users
  /\ added = [u \in Users |-> 0]
  /\ purchases = 0

\* The continuations of the template generate handler for request r.
TemplateGenerate(r) ==
  \/ TemplateNotFound(r)
  \/ TemplateStart(r)
  \/ TemplateSubmitAccepted(r)
  \/ TemplateSubmitFailed(r)

\* The continuations of the upload-asset route for request r.
UploadAsset(r) ==
  \/ \E hasFile \in BOOLEAN : UploadAssetVerified(r, "u1", hasFile)
  \/ AssetNoFile(r)
  \/ AssetStart(r)
  \/ AssetUploadOk(r)
  \/ \E code \in ProviderErrorCodes : AssetUploadRejected(r, code)
  \/ AssetUploadFailed(r)
  \/ AssetStoreOk(r)
  \/ AssetStoreError(r)

AcqStep(r) ==
  \/ Middleware(r, Endpoints, {"u1"})
  \/ GenerateVideo(r, TRUE)
  \/ GenerateVideoWithAi(r)
  \/ TemplateGenerate(r)
  \/ UploadAsset(r)

AcqNext == \E r \in Reqs : AcqStep(r)

\* Two concurrent requests, each to any of the four routes that call
\* getNextHeyGenKey, arriving at a pool that is at or next to its quota.
AcqSpec == AcqInit /\ [][AcqNext]_vars

(* ------------------------------------------------------------------ *)
(* One generate-video request, over the bodies it can carry           *)
(* ------------------------------------------------------------------ *)

\* The request's body is drawn: its orientation and its customDimensions.
DimInit ==
  /\ HEYGEN_KEYS = <<"k1", "k2">>
  /\ keyUsageCount = << >>
  /\ users = [u \in Users |-> Account(CREDITS_PER_VIDEO)]
  /\ videos = << >>
  /\ aiVideos = {}
  /\ assets = {}
  /\ NoPayments
  /\ NoLimiter
  /\ jobs = {}
  /\ files = {}
  /\ \E o \in Orientations, c \in CustomDimensions :
       run = [r \in Reqs |-> [IdleRun EXCEPT !.orientation = o,
                                             !.customDimensions = c]]
  /\ opening = users
  /\ added = [u \in Users |-> 0]
  /\ purchases = 0
  /\ acquired = NoCall

DimNext ==
  \/ Middleware("r1", {"generate-video"}, {"u1"})
  \/ GenerateVideo("r1", TRUE)

DimSpec == DimInit /\ [][DimNext]_vars

(* ------------------------------------------------------------------ *)
(* The first request of a new account                                 *)
(* ------------------------------------------------------------------ *)

\* No uid has a users document yet.
NewInit ==
  /\ HEYGEN_KEYS = <<"k1", "k2">>
  /\ keyUsageCount = << >>
  /\ users = [u \in Users |-> NoDoc]
  /\ videos = << >>
  /\ aiVideos = {}
  /\ assets = {}
  /\ NoPayments
  /\ NoLimiter
  /\ jobs = {}
  /\ files = {}
  /\ run = [r \in Reqs |-> IdleRun]
  /\ opening = users
  /\ added = [u \in Users |-> 0]
  /\ purchases = 0
  /\ acquired = NoCall

\* Accounts come to be by /register or by the first authenticated request;
\* one generate-video request is made; credits may be bought.
NewNext ==
  \/ \E u \in Users : Register(u)
  \/ Middleware("r1", {"generate-video"}, Users)
  \/ GenerateVideo("r1", TRUE)
  \/ Purchase

NewSpec == NewInit /\ [][NewNext]_vars

(* ------------------------------------------------------------------ *)
(* Payments                                                           *)
(* ------------------------------------------------------------------ *)

\* Order o1 is a credits order of u1, o2 a subscription order of u2, still
\* to be paid or completed already; no order has the id o3.
PayInit ==
  /\ HEYGEN_KEYS = <<"k1", "k2">>
  /\ keyUsageCount = << >>
  /\ users = [u \in Users |-> PayAccount(0)]
  /\ videos = << >>
  /\ aiVideos = {}
  /\ assets = {}
  /\ jobs = {}
  /\ files = {}
  /\ run = [r \in Reqs |-> IdleRun]
  /\ opening = users
  /\ added = [u \in Users |-> 0]
  /\ purchases = 0
  /\ acquired = NoCall
  /\ \E paid \in {"created", "completed"} :
       orders = [o \in OrderIds |->
                   IF o = "o1" THEN CreditsOrder("u1", MIN_PURCHASE)
                   ELSE IF o = "o2"
                   THEN [SubscriptionOrder("u2") EXCEPT !.status = paid]
                   ELSE NoOrder]
  /\ transactions = {}
  /\ pay = [p \in PayCalls |-> IdlePay]
  /\ NoLimiter

\* The continuations of call p of /payment/verify.
PaymentVerify(p) ==
  \/ \E u \in Users, o \in OrderIds : PayVerifyToken(p, u, o)
  \/ PayTokenRejected(p)
  \/ \E signatureOk \in BOOLEAN : PaySignature(p, signatureOk)
  \/ PayOrderRead(p)
  \/ PayOrderReadError(p)
  \/ PayUserUpdate(p)
  \/ PayUserUpdateError(p)
  \/ PayOrderUpdate(p)
  \/ PayOrderUpdateError(p)
  \/ PayTransaction(p)
  \/ PayTransactionError(p)
  \/ PaySuccess(p)
  \/ PaySuccessError(p)

PayNext == (\E p \in PayCalls : PaymentVerify(p)) \/ Purchase

\* Two calls of /payment/verify, in sequence or concurrent, by either user
\* for any order, and calls of add-credits.
PaySpec == PayInit /\ [][PayNext]_vars

(* ------------------------------------------------------------------ *)
(* userRateLimit                                                      *)
(* ------------------------------------------------------------------ *)

\* The arguments the middleware is made with, and the last instant of the
\* clock.
RateMax == 2
RateWindow == 3
MaxTime == 4

\* The variables the userRateLimit middleware neither reads nor writes.
nonRateVars ==
  <<HEYGEN_KEYS, keyUsageCount, users, videos, aiVideos, assets, jobs, files,
    run, opening, added, purchases, acquired, orders, transactions, pay>>

\* requests.get(userId) after `if (!requests.has(userId)) requests.set(userId, [])`.
UserRequests(reqs, userId) ==
  IF userId \in DOMAIN reqs THEN reqs[userId] ELSE << >>

\* requests.set(userId, list).
SetRequests(reqs, userId, list) ==
  [k \in (DOMAIN reqs) \cup {userId} |-> IF k = userId THEN list ELSE reqs[k]]

\* userRequests.filter(time => time > windowStart).
ValidRequests(userRequests, windowStart) ==
  LET Recent(time) == time > windowStart
  IN SelectSeq(userRequests, Recent)

\* Mutant: `validRequests.length > maxRequests` for `>=`.
userRateLimitInclusive(reqs, userId, time, maxRequests, windowMs) ==
  LET userRequests == UserRequests(reqs, userId)
      validRequests == ValidRequests(userRequests, time - windowMs)
  IN IF Len(validRequests) > maxRequests
     THEN [status |-> 429, requests |-> SetRequests(reqs, userId, userRequests)]
     ELSE [status |-> 200,
           requests |-> SetRequests(reqs, userId, Append(validRequests, time))]

\* The middleware userRateLimit(maxRequests, windowMs) returns, for a
\* request of user userId at Date.now() = time: 429 with the user's list as
\* it was, or next() (status 200 here) with the filtered list and the time
\* pushed.
userRateLimit(reqs, userId, time, maxRequests, windowMs) ==
  LET userRequests == UserRequests(reqs, userId)
      validRequests == ValidRequests(userRequests, time - windowMs)
  IN IF Len(validRequests) >= maxRequests
     THEN [status |-> 429, requests |-> SetRequests(reqs, userId, userRequests)]
     ELSE [status |-> 200,
           requests |-> SetRequests(reqs, userId, Append(validRequests, time))]

\* A request with req.user set goes through the middleware.
RateLimited(u) ==
  /\ LET out == userRateLimit(requests, u, now, RateMax, RateWindow)
     IN /\ requests' = out.requests
        /\ limited' = [user |-> u, time |-> now, status |-> out.status]
        /\ passed' = IF out.status = 200
                     THEN [passed EXCEPT ![u] = Append(@, now)]
                     ELSE passed
  /\ UNCHANGED now
  /\ UNCHANGED nonRateVars

\* A request without req.user: next() at once.
RateAnonymous ==
  /\ limited' = [user |-> "none", time |-> now, status |-> 200]
  /\ UNCHANGED <<requests, now, passed>>
  /\ UNCHANGED nonRateVars

\* Date.now() moves on.
Tick ==
  /\ now < MaxTime
  /\ now' = now + 1
  /\ UNCHANGED <<requests, passed, limited>>
  /\ UNCHANGED nonRateVars

RateInit ==
  /\ HEYGEN_KEYS = <<"k1", "k2">>
  /\ keyUsageCount = << >>
  /\ users = [u \in Users |-> Account(0)]
  /\ videos = << >>
  /\ aiVideos = {}
  /\ assets = {}
  /\ jobs = {}
  /\ files = {}
  /\ run = [r \in Reqs |-> IdleRun]
  /\ opening = users
  /\ added = [u \in Users |-> 0]
  /\ purchases = 0
  /\ acquired = NoCall
  /\ NoPayments
  /\ NoLimiter

RateNext == (\E u \in Users : RateLimited(u)) \/ RateAnonymous \/ Tick

\* Requests of two users and anonymous ones through one middleware, at any
\* non-decreasing times.
RateSpec == RateInit /\ [][RateNext]_vars

(* ------------------------------------------------------------------ *)
(* Ledger                                                             *)
(* ------------------------------------------------------------------ *)

RECURSIVE SumDebits(_, _)
SumDebits(u, R) ==
  IF R = {} THEN 0
  ELSE LET r == CHOOSE x \in R : TRUE
       IN (IF run[r].uid = u THEN run[r].debit ELSE 0) + SumDebits(u, R \ {r})

\* What account u must hold, given what it opened with, what was bought
\* and what the requests' usage updates took.
Ledger(u) ==
  [credits |-> opening[u].credits + added[u] - SumDebits(u, Reqs),
   creditsUsed |-> opening[u].creditsUsed + SumDebits(u, Reqs),
   videosGenerated |->
     opening[u].videosGenerated + (SumDebits(u, Reqs) \div CREDITS_PER_VIDEO)]

\* The account as purchases alone would leave it.
Untouched(u) == [opening[u] EXCEPT !.credits = @ + added[u]]

\* The documents of the videos collection request r wrote.
RecordsOf(r) == {i \in 1..Len(videos) : videos[i].by = r}

Failed(r) == run[r].pc = "done" /\ run[r].response.status # 200

Succeeded(r) == run[r].pc = "done" /\ run[r].response.status = 200

(* ------------------------------------------------------------------ *)
(* Claims                                                             *)
(* ------------------------------------------------------------------ *)

\* C1: in the generate-video pipeline updateUsage(uid, 'video') is called at
\* most once per request and only after the poll loop has seen `completed`
\* with a video URL; a request that ends with an error has called it not at
\* all and leaves credits, creditsUsed and videosGenerated as they were.
C1_CommitOnlyAfterCompleted ==
  \A r \in Reqs :
    run[r].ep = "generate-video" =>
      /\ run[r].commits <= 1
      /\ run[r].commits = 1 =>
           /\ run[r].status = "completed"
           /\ ~FalsyUrl(run[r].videoUrl)
           /\ RecordsOf(r) # {}
      /\ (Failed(r) /\ run[r].uid \in Users) =>
           /\ run[r].commits = 0
           /\ run[r].debit = 0
           /\ users[run[r].uid] = Untouched(run[r].uid)

\* C1 witness: a generate-video request that saw `completed`, downloaded,
\* cropped and uploaded, and ended on the record-store write failing.
C1_Witness ==
  /\ run["r1"].ep = "generate-video"
  /\ run["r1"].pc = "done"
  /\ run["r1"].response = InternalError("firestore")
  /\ run["r1"].status = "completed"

\* C2: a generate-video request answered with success has taken exactly 20
\* credits, added 20 to creditsUsed and 1 to videosGenerated, whatever the
\* store did with the update.
C2_SuccessChargedOnce ==
  \A r \in Reqs :
    (run[r].ep = "generate-video" /\ Succeeded(r)) =>
      /\ run[r].debit = CREDITS_PER_VIDEO
      /\ users[run[r].uid].credits =
           opening[run[r].uid].credits + added[run[r].uid] - CREDITS_PER_VIDEO
      /\ users[run[r].uid].creditsUsed =
           opening[run[r].uid].creditsUsed + CREDITS_PER_VIDEO
      /\ users[run[r].uid].videosGenerated =
           opening[run[r].uid].videosGenerated + 1

\* C3: once a generate-video request is answered, neither its temp-*.mp4
\* nor its clean-*.mp4 exists.
C3_NoScratchAfterResponse ==
  \A r \in Reqs :
    run[r].pc = "done" =>
      TempPath(r) \notin files /\ CleanPath(r) \notin files

\* C4: when the last status query was answered `failed`, the request is
\* over, with an answer other than the timeout, no debit and no scratch
\* file.
C4_FailedIsTerminal ==
  \A r \in Reqs :
    run[r].status = "failed" =>
      /\ run[r].pc = "done"
      /\ run[r].response.status \notin {0, 408}
      /\ run[r].debit = 0
      /\ TempPath(r) \notin files /\ CleanPath(r) \notin files

\* C5 (safety part): no request issues a 61st status query; inside the loop
\* the queries issued are the attempts counted; a request answered 408
\* whose last answer was no terminal status has issued exactly 60 queries
\* and has made no scratch file, no VideoRecord and no debit.
C5_Safe ==
  \A r \in Reqs :
    /\ run[r].queries <= maxAttempts
    /\ run[r].pc = "poll" =>
         run[r].queries = run[r].attempts /\ run[r].attempts < maxAttempts
    /\ (run[r].pc = "done" /\ run[r].response.status = 408
          /\ run[r].status \in {"processing", "error"}) =>
         /\ run[r].queries = maxAttempts
         /\ TempPath(r) \notin files /\ CleanPath(r) \notin files
         /\ RecordsOf(r) = {}
         /\ run[r].commits = 0 /\ run[r].debit = 0

C6_CreditsNonNegative == \A u \in Users : users[u].credits >= 0

\* Whether request r got past checkVideoLimits.
PassedLimits(r) ==
  \/ run[r].pc \notin {"idle", "limits", "done"}
  \/ /\ run[r].pc = "done"
     /\ run[r].response.status \notin {401, 403}
     /\ run[r].response.error # "Failed to check credits"

\* C7: a request gets past checkVideoLimits only with a balance read of at
\* least 20; a balance read below 20 is answered 403 with the balance, the
\* 20 credits needed and the purchase options, and that request has taken
\* no key, submitted no job, written no document and no file, and left the
\* account's credit fields as they were.
C7_InsufficientCreditsNoEffects ==
  \A r \in Reqs :
    /\ PassedLimits(r) => run[r].available >= CREDITS_PER_VIDEO
    /\ run[r].response.status = 403 =>
         /\ run[r].pc = "done"
         /\ run[r].response.currentCredits < CREDITS_PER_VIDEO
         /\ run[r].response = InsufficientCredits(run[r].response.currentCredits)
         /\ run[r].apiKey = Undefined
         /\ \A j \in jobs : j.by # r
         /\ RecordsOf(r) = {}
         /\ \A d \in aiVideos : d.id # <<"ai-video", r>>
         /\ TempPath(r) \notin files /\ CleanPath(r) \notin files
         /\ run[r].commits = 0 /\ run[r].debit = 0
         /\ users[run[r].uid] = Untouched(run[r].uid)
         /\ r = "r1" => (acquired = NoCall /\ keyUsageCount = << >>)

\* C7 witness: the request of an account of 10 credits, answered 403.
C7_Witness ==
  /\ run["r1"].response.status = 403
  /\ run["r1"].response.currentCredits = 10
  /\ run["r1"].ep = "generate-video"

\* C8: whichever endpoint started the job, a debit has been applied for a
\* request only if its job was seen `completed` and its VideoRecord written.
C8_DebitOnlyAfterRecorded ==
  \A r \in Reqs :
    run[r].debit > 0 =>
      /\ run[r].status = "completed"
      /\ RecordsOf(r) # {}

\* C9: a generate-video request answered with success has written exactly
\* one VideoRecord, of status `completed` and owned by the requester; one
\* answered with an error has written none; no request writes two.
C9_OneRecordPerSuccess ==
  \A r \in Reqs :
    /\ Cardinality(RecordsOf(r)) <= 1
    /\ \A i \in RecordsOf(r) :
         videos[i].status = "completed" /\ videos[i].userId = run[r].uid
    /\ (run[r].ep = "generate-video" /\ Succeeded(r)) =>
         /\ Cardinality(RecordsOf(r)) = 1
         /\ run[r].response.videoId \in RecordsOf(r)
    /\ Failed(r) => RecordsOf(r) = {}

\* C9 witness: a generate-video request answered with success.
C9_Witness ==
  /\ run["r1"].ep = "generate-video"
  /\ Succeeded("r1")
  /\ Len(videos) = 1

\* C10: in a non-empty pool every key's usage is between 0 and the quota,
\* and a call of getNextHeyGenKey that did not reset the counters returned
\* a configured key whose usage was below the quota before the increment.
C10_UsageWithinQuota ==
  Len(HEYGEN_KEYS) > 0 =>
    /\ \A i \in 1..Len(HEYGEN_KEYS) :
         /\ Usage(keyUsageCount, HEYGEN_KEYS[i]) >= 0
         /\ Usage(keyUsageCount, HEYGEN_KEYS[i]) <= KEY_QUOTA
    /\ \A k \in DOMAIN keyUsageCount : keyUsageCount[k] <= KEY_QUOTA
    /\ (acquired.calls > 0 /\ ~acquired.reset) =>
         /\ acquired.before < KEY_QUOTA
         /\ \E i \in 1..Len(HEYGEN_KEYS) : HEYGEN_KEYS[i] = acquired.key
         /\ keyUsageCount[acquired.key] = acquired.before + 1

\* C10 witness: the third key of three takes its last slot.
C10_Witness ==
  /\ Len(HEYGEN_KEYS) = 3
  /\ acquired.key = "k3"
  /\ ~acquired.reset
  /\ acquired.before = KEY_QUOTA - 1
  /\ keyUsageCount["k3"] = KEY_QUOTA

\* Whether no key is configured twice.
DistinctKeys(keys) ==
  \A i, j \in 1..Len(keys) : keys[i] = keys[j] => i = j

\* C11: in a pool of N distinct keys whose counters started at zero, the
\* first N*10 calls of getNextHeyGenKey reset nothing and fill the keys in
\* order, after exactly N*10 calls every key's usage is 10, and call N*10+1 clears the map and returns
\* the first key with usage 1, every other key counting 0.
C11_FullCycleThenReset ==
  (Len(HEYGEN_KEYS) > 0 /\ DistinctKeys(HEYGEN_KEYS)) =>
    LET N == Len(HEYGEN_KEYS)
    IN /\ (acquired.calls > 0 /\ acquired.calls <= N * KEY_QUOTA) =>
            ~acquired.reset
       /\ acquired.calls <= N * KEY_QUOTA =>
            /\ keyUsageCount = PoolFilled(HEYGEN_KEYS, acquired.calls).usage
            /\ acquired = PoolFilled(HEYGEN_KEYS, acquired.calls).acquired
       /\ acquired.calls = N * KEY_QUOTA =>
            \A i \in 1..N : Usage(keyUsageCount, HEYGEN_KEYS[i]) = KEY_QUOTA
       /\ acquired.calls = N * KEY_QUOTA + 1 =>
            /\ acquired.reset
            /\ acquired.key = HEYGEN_KEYS[1]
            /\ DOMAIN keyUsageCount = {HEYGEN_KEYS[1]}
            /\ keyUsageCount[HEYGEN_KEYS[1]] = 1
            /\ \A i \in 2..N : Usage(keyUsageCount, HEYGEN_KEYS[i]) = 0

\* C11 witness: call 31 on a pool of three distinct keys, the reset.
C11_Witness ==
  /\ HEYGEN_KEYS = <<"k1", "k2", "k3">>
  /\ acquired.calls = 3 * KEY_QUOTA + 1
  /\ acquired.reset
  /\ keyUsageCount = ("k1" :> 1)

RECURSIVE SumUsage(_, _)
SumUsage(usage, K) ==
  IF K = {} THEN 0
  ELSE LET k == CHOOSE x \in K : TRUE
       IN usage[k] + SumUsage(usage, K \ {k})

\* Whether request r holds a key it took and has not answered yet.
HoldsKey(r) == run[r].pc \notin {"idle", "limits", "handler", "done"}
                 /\ ~FalsyKey(run[r].apiKey)

\* C12: with two requests interleaved in any way over the four routes that
\* call getNextHeyGenKey, every call counts exactly once (the counters add
\* up to the calls made since they were last cleared, so no increment is
\* lost and no slot is given twice), no counter passes the quota, and a
\* request that took a key holds a configured one.
C12_AcquireAtomic ==
  /\ \A k \in DOMAIN keyUsageCount : keyUsageCount[k] <= KEY_QUOTA
  /\ SumUsage(keyUsageCount, DOMAIN keyUsageCount) = acquired.sinceReset
  /\ \A r \in Reqs :
       HoldsKey(r) => \E i \in 1..Len(HEYGEN_KEYS) : HEYGEN_KEYS[i] = run[r].apiKey

\* C12 witness: the first key had one slot left; of two requests in flight
\* on different routes one took that slot and the other the second key.
C12_Witness ==
  /\ HoldsKey("r1") /\ HoldsKey("r2")
  /\ run["r1"].ep = "template-generate"
  /\ run["r2"].ep = "upload-asset"
  /\ run["r1"].apiKey = "k1" /\ run["r2"].apiKey = "k2"
  /\ keyUsageCount = ("k1" :> KEY_QUOTA @@ "k2" :> 1)
  /\ acquired.sinceReset = KEY_QUOTA + 1

\* C13: with no key configured, a generate-video request that got past
\* checkVideoLimits and past the validation of its body is answered 503
\* 'No API keys available' as soon as it has asked for a key: it holds no
\* key, no job was submitted for it, no status query issued, no scratch file
\* and no VideoRecord written, and no credit field changed.
C13_EmptyPoolUnavailable ==
  Len(HEYGEN_KEYS) = 0 =>
    \A r \in Reqs :
      (run[r].ep = "generate-video" /\ PassedLimits(r)
         /\ run[r].pc # "handler"
         /\ ~(run[r].pc = "done" /\ run[r].response.status = 400)) =>
        /\ run[r].pc = "done"
        /\ run[r].response = [status |-> 503, error |-> "No API keys available"]
        /\ FalsyKey(run[r].apiKey)
        /\ \A j \in jobs : j.by # r
        /\ run[r].queries = 0
        /\ RecordsOf(r) = {}
        /\ TempPath(r) \notin files /\ CleanPath(r) \notin files
        /\ run[r].commits = 0 /\ run[r].debit = 0
        /\ users[run[r].uid] = Untouched(run[r].uid)

\* C13 witness: a generate-video request of an account that can pay,
\* answered 503 with no key configured.
C13_Witness ==
  /\ Len(HEYGEN_KEYS) = 0
  /\ run["r1"].ep = "generate-video"
  /\ run["r1"].available >= CREDITS_PER_VIDEO
  /\ run["r1"].response.status = 503

\* C14: when the provider answered the submission of a generate-video job
\* with a non-2xx response, the request is over, its answer carries the
\* provider's status code and the provider's body, no status query was
\* issued, no scratch file and no VideoRecord exists for it, and the
\* account's credit fields are as they were.
C14_ProviderErrorPropagated ==
  \A r \in Reqs :
    run[r].submitted.outcome = "rejected" =>
      /\ run[r].pc = "done"
      /\ run[r].response.status = run[r].submitted.status
      /\ run[r].response.details = run[r].submitted.body
      /\ run[r].queries = 0 /\ run[r].status = "none"
      /\ \A j \in jobs : j.by # r
      /\ TempPath(r) \notin files /\ CleanPath(r) \notin files
      /\ RecordsOf(r) = {}
      /\ run[r].commits = 0 /\ run[r].debit = 0
      /\ users[run[r].uid] = Untouched(run[r].uid)

\* C14 witness: the provider answered the submission 429.
C14_Witness ==
  /\ run["r1"].ep = "generate-video"
  /\ run["r1"].submitted = ProviderError(429)
  /\ run["r1"].response.status = 429

\* C15: the dimensions a generate-video request posts to the provider are
\* its customDimensions, as they are, whenever the body carries some,
\* whatever its orientation; otherwise 1280x720 for landscape, 720x1280 for
\* portrait, 1080x1080 for square, and one of the three for any other
\* orientation.
C15_DimensionsExact ==
  \A r \in Reqs :
    run[r].dimension # NoDimension =>
      IF ~FalsyUrl(run[r].customDimensions)
      THEN run[r].dimension = run[r].customDimensions
      ELSE /\ run[r].orientation = "landscape" => run[r].dimension = Dim(1280, 720)
           /\ run[r].orientation = "portrait" => run[r].dimension = Dim(720, 1280)
           /\ run[r].orientation = "square" => run[r].dimension = Dim(1080, 1080)
           /\ run[r].dimension \in {Dim(1280, 720), Dim(720, 1280), Dim(1080, 1080)}

\* C15 witness: a portrait request with custom dimensions 640x360, posted
\* with 640x360 and accepted by the provider.
C15_Witness ==
  /\ run["r1"].orientation = "portrait"
  /\ run["r1"].customDimensions = Dim(640, 360)
  /\ run["r1"].dimension = Dim(640, 360)
  /\ run["r1"].submitted.outcome = "accepted"

\* The positions of the generate-video handler after the poll loop.
AfterPoll == {"download", "crop", "upload", "store", "commit", "cleanup", "done"}

\* C16 (state part): when status query number k was answered `completed`
\* with a video_url, for any k up to 60, k queries were issued (the k-1
\* attempts counted before it and this one), the URL is the one captured,
\* the handler has left the loop for the download, crop, upload and record
\* of that asset, and its answer is not the timeout.
C16_CompletedState ==
  \A r \in Reqs :
    run[r].status = "completed" =>
      /\ run[r].queries = run[r].attempts + 1
      /\ run[r].queries >= 1 /\ run[r].queries <= maxAttempts
      /\ run[r].videoUrl = Asset(r)
      /\ run[r].pc \in AfterPoll
      /\ ~(run[r].pc = "done" /\ run[r].response.status = 408)
      /\ \A i \in RecordsOf(r) : videos[i].originalUrl = Asset(r)

\* C16: the state part always holds, and no status query is issued after
\* the `completed` answer.
C16_CompletedAtQueryK ==
  /\ []C16_CompletedState
  /\ [][\A r \in Reqs :
          run[r].status = "completed" =>
            /\ run'[r].queries = run[r].queries
            /\ run'[r].status = "completed"
            /\ run'[r].videoUrl = run[r].videoUrl]_vars

\* C16 witness: `completed` on query 60, the ceiling, and the asset
\* downloaded, cropped, published and recorded.
C16_Witness ==
  /\ run["r1"].status = "completed"
  /\ run["r1"].queries = maxAttempts
  /\ Succeeded("r1")
  /\ Len(videos) = 1 /\ videos[1].originalUrl = Asset("r1")

\* C17: an account created by /register or by verifyToken holds the 20
\* credits of the free plan until it buys or spends some, and the
\* generate-video request of such an account gets past checkVideoLimits.
C17_NewAccountCanGenerate ==
  /\ \A u \in Users :
       (opening[u] = NoDoc /\ users[u] # NoDoc /\ added[u] = 0
          /\ \A r \in Reqs : run[r].uid = u => run[r].commits = 0) =>
         Credits(users[u]) = CREDITS_PER_VIDEO
  /\ \A r \in Reqs :
       (run[r].ep = "generate-video" /\ run[r].uid \in Users
          /\ opening[run[r].uid] = NoDoc
          /\ run[r].pc \notin {"idle", "limits"}
          /\ run[r].response.error # "Failed to check credits") =>
         PassedLimits(r)

\* C18: a call of getNextHeyGenKey on a non-empty pool that found some key
\* below the quota reset nothing, returned the first key in configuration
\* order whose count was below 10, added one to that key's count, and left
\* the count of every other key as it was.
C18_FirstBelowQuota ==
  (acquired.calls > 0 /\ Len(HEYGEN_KEYS) > 0
     /\ \E i \in 1..Len(HEYGEN_KEYS) :
          Usage(acquired.usageBefore, HEYGEN_KEYS[i]) < KEY_QUOTA) =>
    /\ ~acquired.reset
    /\ \E i \in 1..Len(HEYGEN_KEYS) :
         /\ HEYGEN_KEYS[i] = acquired.key
         /\ Usage(acquired.usageBefore, HEYGEN_KEYS[i]) < KEY_QUOTA
         /\ \A j \in 1..(i - 1) :
              Usage(acquired.usageBefore, HEYGEN_KEYS[j]) >= KEY_QUOTA
    /\ \A k \in (DOMAIN keyUsageCount) \cup (DOMAIN acquired.usageBefore) :
         Usage(keyUsageCount, k) =
           Usage(acquired.usageBefore, k) + (IF k = acquired.key THEN 1 ELSE 0)

\* C18 witness: of three keys the first is at the quota and the second is
\* not; the second is returned and counted, the others are as they were.
C18_Witness ==
  /\ HEYGEN_KEYS = <<"k1", "k2", "k3">>
  /\ acquired.usageBefore = ("k1" :> KEY_QUOTA @@ "k2" :> 3)
  /\ acquired.key = "k2"
  /\ keyUsageCount = ("k1" :> KEY_QUOTA @@ "k2" :> 4)

\* C19 (state part): no request issues more than 60 status queries, and
\* after a status query that failed the handler is either still in the
\* loop, with as many attempts counted as queries issued, or has answered
\* the timeout after its 60th query; the failure made no file, no record
\* and no debit.
C19_QueryErrorState ==
  \A r \in Reqs :
    /\ run[r].queries <= maxAttempts
    /\ run[r].status = "error" =>
         /\ run[r].attempts = run[r].queries
         /\ \/ run[r].pc = "poll" /\ run[r].attempts < maxAttempts
            \/ /\ run[r].pc = "done"
               /\ run[r].response.status = 408
               /\ run[r].queries = maxAttempts
         /\ TempPath(r) \notin files /\ CleanPath(r) \notin files
         /\ RecordsOf(r) = {}
         /\ run[r].commits = 0

\* C19: the state part always holds, and every status query that fails
\* adds exactly one to the attempts counted.
C19_QueryErrorCounted ==
  /\ []C19_QueryErrorState
  /\ [][\A r \in Reqs :
          (run'[r].queries = run[r].queries + 1 /\ run'[r].status = "error") =>
            run'[r].attempts = run[r].attempts + 1]_vars

\* C19 witness: the 60th query failed as well, after which the request was
\* answered with the timeout.
C19_Witness ==
  /\ run["r1"].status = "error"
  /\ run["r1"].queries = maxAttempts
  /\ run["r1"].response.status = 408

\* The generate-video requests of account u answered with success.
SucceededRuns(u) ==
  {r \in Reqs : run[r].uid = u /\ run[r].ep = "generate-video" /\ Succeeded(r)}

\* C20: once no request is in flight, an account of which k generate-video
\* runs succeeded, in whatever interleaving with each other and with
\* purchases of c credits in total, holds c - 20k credits more than it
\* opened with, 20k more creditsUsed and k more videosGenerated.
C20_NoLostUpdate ==
  (\A r \in Reqs : run[r].pc \in {"idle", "done"}) =>
    \A u \in Users :
      LET k == Cardinality(SucceededRuns(u))
      IN /\ users[u].credits =
              opening[u].credits + added[u] - CREDITS_PER_VIDEO * k
         /\ users[u].creditsUsed =
              opening[u].creditsUsed + CREDITS_PER_VIDEO * k
         /\ users[u].videosGenerated = opening[u].videosGenerated + k

\* C21: once the download and the crop of a request are over, with the crop
\* done or failed, its temp-*.mp4 does not exist; it does not exist while
\* the upload, the record write, the commit or the cleanup is ahead.
C21_RawFileGoneAfterCrop ==
  \A r \in Reqs :
    (run[r].pc \in {"upload", "store", "commit", "cleanup"}
       \/ (run[r].pc = "done" /\ run[r].response = InternalError("ffmpeg"))) =>
      TempPath(r) \notin files

\* The positions of the generate-video chain, in the order of the code.
StageOrder ==
  <<"idle", "limits", "handler", "submit", "poll", "download", "crop",
    "upload", "store", "commit", "cleanup", "done">>

Rank(pc) == CHOOSE i \in 1..Len(StageOrder) : StageOrder[i] = pc

\* C22 (state part): a generate-video request answered with success was let
\* through the preflight, took a key, had its job accepted, saw `completed`,
\* wrote one VideoRecord, called the usage update once and has no scratch
\* file left; before the commit the record is written and nothing debited;
\* before the cleanup the commit is made and both scratch files exist.
C22_StagesState ==
  \A r \in Reqs :
    run[r].ep = "generate-video" =>
      /\ run[r].pc = "commit" =>
           Cardinality(RecordsOf(r)) = 1 /\ run[r].commits = 0
      /\ run[r].pc = "cleanup" =>
           /\ run[r].commits = 1
           /\ TempPath(r) \in files /\ CleanPath(r) \in files
      /\ Succeeded(r) =>
           /\ run[r].available >= CREDITS_PER_VIDEO
           /\ ~FalsyKey(run[r].apiKey)
           /\ run[r].submitted.outcome = "accepted"
           /\ Cardinality({j \in jobs : j.by = r}) = 1
           /\ run[r].status = "completed" /\ run[r].queries >= 1
           /\ Cardinality(RecordsOf(r)) = 1
           /\ run[r].commits = 1
           /\ TempPath(r) \notin files /\ CleanPath(r) \notin files

\* C22 (step part): a generate-video request moves one stage forward at a
\* time, or from any stage to an error response; success is answered from
\* the cleanup alone; and each effect is made by the step of its own stage:
\* the key by the step into the submission, the job by the step into the
\* loop, the scratch files by the steps out of download and crop, the
\* record by the step into the commit, the debit by the step into the
\* cleanup, the removal of the files by the step into the response.
C22_StagesStep ==
  \A r \in Reqs :
    (run'[r].ep = "generate-video" /\ run'[r] # run[r]) =>
      /\ \/ run'[r].pc = run[r].pc /\ run[r].pc = "poll"
         \/ Rank(run'[r].pc) = Rank(run[r].pc) + 1
         \/ run'[r].pc = "done" /\ run'[r].response.status # 200
      /\ run'[r].response.status = 200 => run[r].pc = "cleanup"
      /\ run'[r].apiKey # run[r].apiKey => run[r].pc = "handler"
      /\ (\E j \in jobs' \ jobs : j.by = r) => run[r].pc = "submit"
      /\ run'[r].queries # run[r].queries => run[r].pc = "poll"
      /\ (TempPath(r) \in files' /\ TempPath(r) \notin files) =>
           run[r].pc = "download"
      /\ (CleanPath(r) \in files' /\ CleanPath(r) \notin files) =>
           run[r].pc = "crop"
      /\ Len(videos') # Len(videos) =>
           run[r].pc = "store" /\ run'[r].pc = "commit"
      /\ run'[r].commits # run[r].commits =>
           run[r].pc = "commit" /\ run'[r].pc = "cleanup"
      /\ (files' # files /\ files' \subseteq files) =>
           run[r].pc = "cleanup" /\ run'[r].pc = "done"

\* C22: in every generate-video run the stages come once each in the order
\* preflight, key, submission, poll, download, crop, upload, record, commit,
\* cleanup, response.
C22_StageOrder == []C22_StagesState /\ [][C22_StagesStep]_vars

\* C22 witness: a run answered with success after two status queries, with
\* its 20 credits taken and no scratch file left.
C22_Witness ==
  /\ run["r1"].ep = "generate-video"
  /\ Succeeded("r1")
  /\ run["r1"].queries = 2
  /\ run["r1"].debit = CREDITS_PER_VIDEO
  /\ files = {}

\* C23: a request posts its clean file to the host at most once; when that
\* post failed the request is over, answered 500 'Failed to upload video to
\* Catbox', with one post made, no VideoRecord written, no usage update
\* called and the account's credit fields as they were.
C23_SingleUploadAttempt ==
  \A r \in Reqs :
    /\ run[r].uploads <= 1
    /\ run[r].pc \in {"store", "commit", "cleanup"} => run[r].uploads = 1
    /\ run[r].pc = "upload" => run[r].uploads = 0
    /\ run[r].response = InternalError("Failed to upload video to Catbox") =>
         /\ run[r].pc = "done"
         /\ run[r].uploads = 1
         /\ RecordsOf(r) = {}
         /\ run[r].commits = 0 /\ run[r].debit = 0
         /\ users[run[r].uid] = Untouched(run[r].uid)

\* C23 witness: the one post to the host failed and the request was
\* answered with the upload error.
C23_Witness ==
  /\ run["r1"].pc = "done"
  /\ run["r1"].uploads = 1
  /\ run["r1"].response = InternalError("Failed to upload video to Catbox")

\* The credits the calls of /payment/verify added for order o.
PaidInto(o) ==
  (IF pay["p1"].order = o THEN pay["p1"].credited ELSE 0)
    + (IF pay["p2"].order = o THEN pay["p2"].credited ELSE 0)

\* The credits the calls of /payment/verify added to the account of u.
PaidTo(u) ==
  (IF pay["p1"].uid = u THEN pay["p1"].credited ELSE 0)
    + (IF pay["p2"].uid = u THEN pay["p2"].credited ELSE 0)

\* C24: whatever calls of /payment/verify with a valid signature are made
\* for an order, in sequence or concurrent, with or without a failure
\* between the credit increment and the update of the order's status, the
\* order's credits are added to its account at most once.
C24_OrderCreditsOnce ==
  \A o \in OrderIds :
    orders[o] # NoOrder => PaidInto(o) <= orders[o].credits

\* C25: a balance rises only by a verified payment against a stored order
\* of that account, by the order's credits: every account holds at most its
\* opening credits plus what /payment/verify added to it.
C25_OnlyVerifiedPaymentsCredit ==
  \A u \in Users : Credits(users[u]) <= Credits(opening[u]) + PaidTo(u)

\* A step in which call p is answered with a rejection of /payment/verify.
Rejects(p) ==
  /\ pay[p].pc # "done"
  /\ pay'[p].pc = "done"
  /\ pay'[p].response.status \in {400, 403, 404}

\* C28: a call of /payment/verify that is rejected (invalid signature,
\* unknown order, another user's order, order already completed) has written
\* nothing, and the step that rejects it leaves users, orders and
\* transactions as they were.
C28_RejectionsWriteNothing ==
  [][\A p \in PayCalls :
       Rejects(p) =>
         /\ pay[p].credited = 0 /\ ~pay[p].wrote
         /\ UNCHANGED <<users, orders, transactions>>]_vars

\* C28 witness: one call was refused an order already completed and the
\* other an order of another user, with nothing written by either.
C28_Witness ==
  /\ pay["p1"].response = [status |-> 400, error |-> "Order already processed"]
  /\ pay["p2"].response = [status |-> 403, error |-> "Unauthorized"]
  /\ pay["p1"].credited = 0 /\ pay["p2"].credited = 0
  /\ transactions = {}

\* Whether request r came with a valid token and got past checkVideoLimits
\* with a balance of at least 20 read.
PassedPreflight(r) ==
  /\ run[r].uid \in Users
  /\ run[r].available >= CREDITS_PER_VIDEO

\* C26: every job posted to the provider and every key taken from the pool
\* belong to a request of an authenticated user that got past the preflight
\* with at least 20 credits read, on each of the four routes that take a
\* key.
C26_KeysOnlyAfterPreflight ==
  \A r \in Reqs :
    (~FalsyKey(run[r].apiKey) \/ \E j \in jobs : j.by = r) => PassedPreflight(r)

\* C27: generate-video answers 408 'Video generation timeout' only when 60
\* status queries were made for the job and none was answered `completed`;
\* an answer `completed`, with or without a video_url in it, is never
\* followed by the timeout response.
C27_TimeoutOnlyAfterSixtyQueries ==
  \A r \in Reqs :
    (run[r].ep = "generate-video" /\ run[r].response.status = 408) =>
      /\ run[r].queries = maxAttempts
      /\ run[r].status \notin {"completed", "completed-nourl"}

\* The requests of user u let through at an instant in lo..hi.
PassedIn(u, lo, hi) ==
  {i \in 1..Len(passed[u]) : passed[u][i] >= lo /\ passed[u][i] <= hi}

\* C29: of the requests of one user, at most maxRequests are let through in
\* any windowMs consecutive instants; a request is answered 429 exactly when
\* maxRequests of that user's own requests were let through in the windowMs
\* instants up to now, whatever the other user did, and such a step leaves
\* every stored timestamp list and every user's passed requests as they
\* were; a step for one user leaves the other user's list as it was.
C29_RateLimitPerUser ==
  /\ [](\A u \in Users : \A t \in 0..MaxTime :
          Cardinality(PassedIn(u, t, t + RateWindow - 1)) <= RateMax)
  /\ [][\A u \in Users :
          /\ (limited' # limited /\ limited'.user = u /\ limited'.status = 429) =>
               /\ Cardinality(PassedIn(u, now - RateWindow + 1, now)) = RateMax
               /\ \A v \in Users :
                    UserRequests(requests', v) = UserRequests(requests, v)
               /\ passed' = passed
          /\ passed'[u] # passed[u] =>
               /\ Cardinality(PassedIn(u, now - RateWindow + 1, now)) < RateMax
               /\ passed'[u] = Append(passed[u], now)
               /\ \A v \in Users \ {u} :
                    /\ passed'[v] = passed[v]
                    /\ UserRequests(requests', v) = UserRequests(requests, v)]_vars

\* C29 witness: u1 was let through maxRequests times at one instant and
\* again a window later, and is answered 429 now, while u2 was let through
\* in between.
C29_Witness ==
  /\ limited = [user |-> "u1", time |-> now, status |-> 429]
  /\ Len(passed["u1"]) = 2 * RateMax
  /\ passed["u1"][1] = 0 /\ passed["u1"][RateMax] = 0
  /\ passed["u1"][RateMax + 1] = RateWindow
  /\ Len(passed["u2"]) >= 1

\* C30: with two concurrent generate-video requests, r2 reaches its
\* response whatever r1 does, also when r1 stays suspended in its poll loop
\* for ever or polls a job that never completes; and a continuation of one
\* request changes the locals of that request only, its `attempts` and
\* `videoUrl` included.
C30_PollDoesNotBlock ==
  /\ <>(run["r2"].pc = "done")
  /\ [][\A r \in Reqs :
          run'[r] # run[r] => \A q \in Reqs \ {r} : run'[q] = run[q]]_vars

\* C30 witness: r1 has made 59 status queries for a job still processing and
\* is suspended in its loop, while r2, started meanwhile, was answered 200
\* with its own URL captured at its first query.
C30_Witness ==
  /\ run["r1"].pc = "poll"
  /\ run["r1"].attempts = maxAttempts - 1
  /\ run["r1"].videoUrl = Null
  /\ run["r2"].pc = "done"
  /\ run["r2"].response.status = 200
  /\ run["r2"].attempts = 0
  /\ run["r2"].queries = 1
  /\ run["r2"].videoUrl = Asset("r2")

====
